---- MODULE Spec2Model ----
(***************************************************************************)
(* A model of package pm (VividCortex/pm): the Proclist registry, its      *)
(* per-task journal and the cooperative cancellation protocol, as          *)
(* implemented by Start, Status, CheckCancel, Kill, done/Done, SetOptions   *)
(* (pm.go) and getProcs, getJournal (http.go).                             *)
(*                                                                         *)
(* Every operation is split where the Go code reads the clock and between  *)
(* its critical sections; a critical section that takes one lock, works    *)
(* and releases it is one step, guarded by the lock being free.  getProcs  *)
(* and getJournal, which hold a lock across further steps, keep it in the  *)
(* lock variable meanwhile.  Strings are sequences of tokens and string    *)
(* concatenation is sequence concatenation.                                *)
(***************************************************************************)
EXTENDS Integers, Sequences, FiniteSets, TLC

\* ------------------------------------------------------------------ bounds
MaxProcs == 3       \* proc objects the heap has room for
MaxClock == 1       \* time.Now() returns 0..MaxClock
MaxStatus == 1      \* calls of Status on a task
MaxLabelled == 2    \* calls of Status on a task in SpecLabels
MaxRestarts == 2    \* calls of Start in SpecRestart

\* ------------------------------------------------------------ input sets
Workers == {"w1"}
Admins == {"a1"}
Workers2 == Workers \cup {"w2"}
Admins2 == Admins \cup {"a2"}
Threads == Workers2 \cup Admins2
Ids == {"t1", "t2"}
Labels == {<<"reading">>}
Labels2 == Labels \cup {<<"writing">>}
Messages == {<<>>, <<"bye">>}
AttrSets == {{<<"method", "GET">>}}
AttrSets2 == AttrSets \cup {{<<"method", "PUT">>, <<"host", "db1">>}}
Clock == 0..MaxClock

\* In Spec a worker goroutine runs one task from Start to Done.
MaxTasks == Cardinality(Workers)

NULL == 0
NoThread == "none"
ProcRefs == 1..MaxProcs

VARIABLES
    procs,      \* pl.procs: id -> *proc (NULL: no entry)
    plmu,       \* pl.mu
    opts,       \* pl.opts
    heap,       \* the proc objects, by address
    nextp,      \* the next address Start allocates
    now,        \* the latest value time.Now() has returned
    th,         \* each goroutine's position and locals
    inflight,   \* each goroutine's panic in flight
    ret         \* each goroutine's last completed call and what it returned

vars == <<procs, plmu, opts, heap, nextp, now, th, inflight, ret>>

\* ------------------------------------------------------------- values
\* A panic value: nil, a CancelErr or anything else.  The field by is not part
\* of the Go value: it remembers the proc whose doCancel raised a CancelErr.
NoPanic == [kind |-> "nil", message |-> <<>>, by |-> NULL]
CancelErr(m, p) == [kind |-> "CancelErr", message |-> m, by |-> p]
OtherPanic == [kind |-> "fault", message |-> <<>>, by |-> NULL]

journalEntry(ts, status) == [ts |-> ts, status |-> status]
NoEntry == journalEntry(0, <<>>)

FreeMu == [w |-> NoThread, r |-> {}]

\* the zero value of type proc (with the per-task ForbidCancel option)
NewProc == [mu |-> FreeMu, attrs |-> {}, journal |-> <<>>,
            isPending |-> FALSE, message |-> <<>>, forbid |-> FALSE]

NoLocals == [pc |-> "idle", id |-> "none", attrs |-> {}, p |-> NULL, ts |-> 0,
             arg |-> <<>>, e |-> NoPanic, stop |-> FALSE,
             todo |-> {}, attrDetails |-> <<>>, firstJEntry |-> NoEntry,
             lastJEntry |-> NoEntry, out |-> <<>>, waits |-> FALSE]

NoRet == [op |-> "none", id |-> "none", arg |-> <<>>, val |-> <<>>]
Returned(op, id, arg, val) == [op |-> op, id |-> id, arg |-> arg, val |-> val]

\* ------------------------------------------------------------ sync.RWMutex
CanLock(mu) == mu.w = NoThread /\ mu.r = {}
Lock(mu, t) == [mu EXCEPT !.w = t]
Unlock(mu) == [mu EXCEPT !.w = NoThread]
CanRLock(mu) == mu.w = NoThread
RLock(mu, t) == [mu EXCEPT !.r = @ \cup {t}]
RUnlock(mu, t) == [mu EXCEPT !.r = @ \ {t}]

\* ------------------------------------------------------------ pure helpers
\* addJournalEntry as it would be with PushFront
addJournalEntry_Front(j, ts, status) == <<journalEntry(ts, status)>> \o j

\* proc.addJournalEntry: journal.PushBack(&journalEntry{ts, status})
addJournalEntry(j, ts, status) == Append(j, journalEntry(ts, status))

\* doCancel as it would be if the interrupt did not carry the message
doCancel_Bare(p, m) == CancelErr(<<"killed">>, p)

\* proc.doCancel: the value it panics with
doCancel(p, m) ==
    CancelErr(IF Len(m) > 0 THEN <<"killed">> \o <<": ">> \o m ELSE <<"killed">>, p)

\* Kill: the journal entry of an accepted request
cancelRequestEntry(m) ==
    IF Len(m) > 0 THEN <<"[cancel request: ">> \o m \o <<"]">>
    ELSE <<"[cancel request]">>

Idle(t) == th[t].pc = "idle"
Running(t) == Idle(t) /\ inflight[t] = NoPanic
At(t, l) == th[t].pc = l
Return(t) == [th EXCEPT ![t] = NoLocals]

Init ==
    /\ procs = [i \in Ids |-> NULL]
    /\ plmu = FreeMu
    /\ opts = [StopCancelPanic |-> FALSE]
    /\ heap = [p \in ProcRefs |-> NewProc]
    /\ nextp = 1
    /\ now = 0
    /\ th = [t \in Threads |-> NoLocals]
    /\ inflight = [t \in Threads |-> NoPanic]
    /\ ret = [t \in Threads |-> NoRet]

\* time.Now() returns n: time does not run backwards
TimeNow(n) == n >= now /\ now' = n

\* ------------------------------------------------------------------ Start
\* the per-task option ForbidCancel, fixed when the task starts
withOpts(rec, f) == [rec EXCEPT !.forbid = f]

\* Start as it would be if the proc went into the registry before its first entry
Start_New_Bare(t, id, a, f, n, cap) ==
    /\ Running(t)
    /\ nextp <= cap
    /\ TimeNow(n)
    /\ heap' = [heap EXCEPT ![nextp] = withOpts([NewProc EXCEPT !.attrs = a], f)]
    /\ nextp' = nextp + 1
    /\ th' = [th EXCEPT ![t] = [NoLocals EXCEPT !.pc = "Start_Put", !.id = id,
                                               !.attrs = a, !.p = nextp]]
    /\ ret' = [ret EXCEPT ![t] = NoRet]
    /\ UNCHANGED <<procs, plmu, opts, inflight>>

\* Start as it would be without the "init" entry
Start_New_NoInit(t, id, a, f, n, cap) ==
    /\ Running(t)
    /\ nextp <= cap
    /\ TimeNow(n)
    /\ heap' = [heap EXCEPT ![nextp] = withOpts([NewProc EXCEPT !.attrs = a], f)]
    /\ nextp' = nextp + 1
    /\ th' = [th EXCEPT ![t] = [NoLocals EXCEPT !.pc = "Start_Put", !.id = id,
                                               !.attrs = a, !.p = nextp]]
    /\ ret' = [ret EXCEPT ![t] = NoRet]
    /\ UNCHANGED <<procs, plmu, opts, inflight>>

\* Start as it would be if a request outlived the task it was made for
Start_New_Inherit(t, id, a, f, n, cap) ==
    /\ Running(t)
    /\ nextp <= cap
    /\ TimeNow(n)
    /\ heap' = [heap EXCEPT ![nextp] =
                  withOpts([NewProc EXCEPT !.attrs = a,
                               !.isPending = nextp > 1 /\ heap[nextp - 1].isPending,
                               !.journal = addJournalEntry(<<>>, n, <<"init">>)], f)]
    /\ nextp' = nextp + 1
    /\ th' = [th EXCEPT ![t] = [NoLocals EXCEPT !.pc = "Start_Put", !.id = id,
                                               !.attrs = a, !.p = nextp]]
    /\ ret' = [ret EXCEPT ![t] = NoRet]
    /\ UNCHANGED <<procs, plmu, opts, inflight>>

\* p := &proc{id, attrs}; p.addJournalEntry(time.Now(), "init")
Start_New(t, id, a, f, n, cap) ==
    /\ Running(t)
    /\ nextp <= cap
    /\ TimeNow(n)
    /\ heap' = [heap EXCEPT ![nextp] =
                  withOpts([NewProc EXCEPT !.attrs = a,
                               !.journal = addJournalEntry(<<>>, n, <<"init">>)], f)]
    /\ nextp' = nextp + 1
    /\ th' = [th EXCEPT ![t] = [NoLocals EXCEPT !.pc = "Start_Put", !.id = id,
                                               !.attrs = a, !.p = nextp]]
    /\ ret' = [ret EXCEPT ![t] = NoRet]
    /\ UNCHANGED <<procs, plmu, opts, inflight>>

\* Start as it would be if the registry held one task at a time
Start_Put_Single(t) ==
    /\ At(t, "Start_Put")
    /\ CanLock(plmu)
    /\ procs' = [i \in Ids |-> IF i = th[t].id THEN th[t].p ELSE NULL]
    /\ plmu' = Unlock(Lock(plmu, t))
    /\ th' = Return(t)
    /\ ret' = [ret EXCEPT ![t] = Returned("Start", th[t].id, <<>>, <<>>)]
    /\ UNCHANGED <<opts, heap, nextp, now, inflight>>

\* Start as it would be if it kept the proc an id already has
Start_Put_IfAbsent(t) ==
    /\ At(t, "Start_Put")
    /\ CanLock(plmu)
    /\ procs' = IF procs[th[t].id] = NULL THEN [procs EXCEPT ![th[t].id] = th[t].p]
                 ELSE procs
    /\ plmu' = Unlock(Lock(plmu, t))
    /\ th' = Return(t)
    /\ ret' = [ret EXCEPT ![t] = Returned("Start", th[t].id, <<>>, <<>>)]
    /\ UNCHANGED <<opts, heap, nextp, now, inflight>>

\* pl.mu.Lock(); pl.procs[id] = p; pl.mu.Unlock()
Start_Put(t) ==
    /\ At(t, "Start_Put")
    /\ CanLock(plmu)
    /\ procs' = [procs EXCEPT ![th[t].id] = th[t].p]
    /\ plmu' = Unlock(Lock(plmu, t))
    /\ th' = Return(t)
    /\ ret' = [ret EXCEPT ![t] = Returned("Start", th[t].id, <<>>, <<>>)]
    /\ UNCHANGED <<opts, heap, nextp, now, inflight>>

\* ----------------------------------------------------------------- Status
\* the entries of a journal that carry a label given to Status
StatusCount(j) == Cardinality({k \in 1..Len(j) : j[k].status \in Labels2})

\* ts := time.Now()
Status_Now(t, id, s, n, max) ==
    /\ Running(t)
    /\ TimeNow(n)
    /\ procs[id] # NULL => StatusCount(heap[procs[id]].journal) < max
    /\ th' = [th EXCEPT ![t] = [NoLocals EXCEPT !.pc = "Status_Lookup", !.id = id,
                                               !.arg = s, !.ts = n]]
    /\ ret' = [ret EXCEPT ![t] = NoRet]
    /\ UNCHANGED <<procs, plmu, opts, heap, nextp, inflight>>

\* Status as it would be if an id that is not in the registry were a panic
Status_Lookup_Strict(t) ==
    /\ At(t, "Status_Lookup")
    /\ CanRLock(plmu)
    /\ plmu' = RUnlock(RLock(plmu, t), t)
    /\ IF procs[th[t].id] # NULL
       THEN /\ th' = [th EXCEPT ![t].pc = "Status_Body", ![t].p = procs[th[t].id]]
            /\ ret' = ret
            /\ inflight' = inflight
       ELSE /\ th' = Return(t)
            /\ ret' = [ret EXCEPT ![t] = Returned("Status", th[t].id, th[t].arg, <<>>)]
            /\ inflight' = [inflight EXCEPT ![t] = OtherPanic]
    /\ UNCHANGED <<procs, opts, heap, nextp, now>>

\* pl.mu.RLock(); p, present := pl.procs[id]; pl.mu.RUnlock(); if present {...}
Status_Lookup(t) ==
    /\ At(t, "Status_Lookup")
    /\ CanRLock(plmu)
    /\ plmu' = RUnlock(RLock(plmu, t), t)
    /\ IF procs[th[t].id] # NULL
       THEN /\ th' = [th EXCEPT ![t].pc = "Status_Body", ![t].p = procs[th[t].id]]
            /\ ret' = ret
       ELSE /\ th' = Return(t)
            /\ ret' = [ret EXCEPT ![t] = Returned("Status", th[t].id, th[t].arg, <<>>)]
    /\ UNCHANGED <<procs, opts, heap, nextp, now, inflight>>

\* if p.cancel.isPending { p.doCancel() }: the panic a checkpoint leaves with
checkpoint(p, rec) == IF rec.isPending THEN doCancel(p, rec.message) ELSE NoPanic

\* Status as it would be if firing the interrupt consumed the request
Status_Body_Once(t) ==
    /\ At(t, "Status_Body")
    /\ CanLock(heap[th[t].p].mu)
    /\ heap' = [heap EXCEPT ![th[t].p].journal = addJournalEntry(@, th[t].ts, th[t].arg),
                            ![th[t].p].isPending = FALSE,
                            ![th[t].p].mu = Unlock(Lock(@, t))]
    /\ inflight' = [inflight EXCEPT ![t] = checkpoint(th[t].p, heap[th[t].p])]
    /\ th' = Return(t)
    /\ ret' = [ret EXCEPT ![t] = Returned("Status", th[t].id, th[t].arg, <<>>)]
    /\ UNCHANGED <<procs, plmu, opts, nextp, now>>

\* Status as it would be if it checked for a request before writing the entry
Status_Body_RaiseFirst(t) ==
    /\ At(t, "Status_Body")
    /\ CanLock(heap[th[t].p].mu)
    /\ heap' = [heap EXCEPT ![th[t].p].journal =
                                IF heap[th[t].p].isPending THEN @
                                ELSE addJournalEntry(@, th[t].ts, th[t].arg),
                            ![th[t].p].mu = Unlock(Lock(@, t))]
    /\ inflight' = [inflight EXCEPT ![t] = checkpoint(th[t].p, heap[th[t].p])]
    /\ th' = Return(t)
    /\ ret' = [ret EXCEPT ![t] = Returned("Status", th[t].id, th[t].arg, <<>>)]
    /\ UNCHANGED <<procs, plmu, opts, nextp, now>>

\* Status as it would be with the Unlock after the body, not deferred
Status_Body_NoDefer(t) ==
    /\ At(t, "Status_Body")
    /\ CanLock(heap[th[t].p].mu)
    /\ heap' = [heap EXCEPT ![th[t].p].journal = addJournalEntry(@, th[t].ts, th[t].arg),
                            ![th[t].p].mu = IF heap[th[t].p].isPending
                                            THEN Lock(@, t) ELSE Unlock(Lock(@, t))]
    /\ inflight' = [inflight EXCEPT ![t] = checkpoint(th[t].p, heap[th[t].p])]
    /\ th' = Return(t)
    /\ ret' = [ret EXCEPT ![t] = Returned("Status", th[t].id, th[t].arg, <<>>)]
    /\ UNCHANGED <<procs, plmu, opts, nextp, now>>

\* p.mu.Lock(); defer p.mu.Unlock(); p.addJournalEntry(ts, status)
\* if p.cancel.isPending { p.doCancel() }
Status_Body(t) ==
    /\ At(t, "Status_Body")
    /\ CanLock(heap[th[t].p].mu)
    /\ heap' = [heap EXCEPT ![th[t].p].journal = addJournalEntry(@, th[t].ts, th[t].arg),
                            ![th[t].p].mu = Unlock(Lock(@, t))]
    /\ inflight' = [inflight EXCEPT ![t] = checkpoint(th[t].p, heap[th[t].p])]
    /\ th' = Return(t)
    /\ ret' = [ret EXCEPT ![t] = Returned("Status", th[t].id, th[t].arg, <<>>)]
    /\ UNCHANGED <<procs, plmu, opts, nextp, now>>

\* ------------------------------------------------------------ CheckCancel
\* pl.mu.RLock(); p, present := pl.procs[id]; pl.mu.RUnlock(); if present {...}
CheckCancel_Lookup(t, id) ==
    /\ Running(t)
    /\ CanRLock(plmu)
    /\ plmu' = RUnlock(RLock(plmu, t), t)
    /\ IF procs[id] # NULL
       THEN /\ th' = [th EXCEPT ![t] = [NoLocals EXCEPT !.pc = "CheckCancel_Body",
                                          !.id = id, !.p = procs[id]]]
            /\ ret' = [ret EXCEPT ![t] = NoRet]
       ELSE /\ th' = Return(t)
            /\ ret' = [ret EXCEPT ![t] = Returned("CheckCancel", id, <<>>, <<>>)]
    /\ UNCHANGED <<procs, opts, heap, nextp, now, inflight>>

\* CheckCancel as it would be if raising the interrupt used the request up
CheckCancel_Body_Reset(t) ==
    /\ At(t, "CheckCancel_Body")
    /\ CanLock(heap[th[t].p].mu)
    /\ heap' = [heap EXCEPT ![th[t].p].isPending = FALSE,
                            ![th[t].p].mu = Unlock(Lock(@, t))]
    /\ inflight' = [inflight EXCEPT ![t] = checkpoint(th[t].p, heap[th[t].p])]
    /\ th' = Return(t)
    /\ ret' = [ret EXCEPT ![t] = Returned("CheckCancel", th[t].id, th[t].arg, <<>>)]
    /\ UNCHANGED <<procs, plmu, opts, nextp, now>>

\* CheckCancel as it would be if it went through Status with an empty label
CheckCancel_Body_Logged(t) ==
    /\ At(t, "CheckCancel_Body")
    /\ CanLock(heap[th[t].p].mu)
    /\ heap' = [heap EXCEPT ![th[t].p].journal = addJournalEntry(@, now, <<"">>),
                            ![th[t].p].mu = Unlock(Lock(@, t))]
    /\ inflight' = [inflight EXCEPT ![t] = checkpoint(th[t].p, heap[th[t].p])]
    /\ th' = Return(t)
    /\ ret' = [ret EXCEPT ![t] = Returned("CheckCancel", th[t].id, th[t].arg, <<>>)]
    /\ UNCHANGED <<procs, plmu, opts, nextp, now>>

\* CheckCancel as it would be if raising the interrupt also dropped the proc
CheckCancel_Body_Finalize(t) ==
    /\ At(t, "CheckCancel_Body")
    /\ CanLock(heap[th[t].p].mu)
    /\ heap' = [heap EXCEPT ![th[t].p].mu = Unlock(Lock(@, t))]
    /\ inflight' = [inflight EXCEPT ![t] = checkpoint(th[t].p, heap[th[t].p])]
    /\ procs' = IF heap[th[t].p].isPending
                THEN [procs EXCEPT ![th[t].id] = NULL] ELSE procs
    /\ th' = Return(t)
    /\ ret' = [ret EXCEPT ![t] = Returned("CheckCancel", th[t].id, th[t].arg, <<>>)]
    /\ UNCHANGED <<plmu, opts, nextp, now>>

\* p.mu.Lock(); defer p.mu.Unlock(); if p.cancel.isPending { p.doCancel() }
CheckCancel_Body(t) ==
    /\ At(t, "CheckCancel_Body")
    /\ CanLock(heap[th[t].p].mu)
    /\ heap' = [heap EXCEPT ![th[t].p].mu = Unlock(Lock(@, t))]
    /\ inflight' = [inflight EXCEPT ![t] = checkpoint(th[t].p, heap[th[t].p])]
    /\ th' = Return(t)
    /\ ret' = [ret EXCEPT ![t] = Returned("CheckCancel", th[t].id, th[t].arg, <<>>)]
    /\ UNCHANGED <<procs, plmu, opts, nextp, now>>

\* ------------------------------------------------------------------- Kill
\* Kill as it would be if it reported an id that is not in the registry as done
KillReturn_Nil(present, forbidden) ==
    IF present /\ forbidden THEN <<"ErrForbidden">> ELSE <<"nil">>

\* what Kill reports to its caller
KillReturn(present, forbidden) ==
    IF ~present THEN <<"ErrNoSuchProcess">>
    ELSE IF forbidden THEN <<"ErrForbidden">> ELSE <<"nil">>

\* ts := time.Now()
Kill_Now(t, id, m, n) ==
    /\ Running(t)
    /\ TimeNow(n)
    /\ th' = [th EXCEPT ![t] = [NoLocals EXCEPT !.pc = "Kill_Lookup", !.id = id,
                                               !.arg = m, !.ts = n]]
    /\ ret' = [ret EXCEPT ![t] = NoRet]
    /\ UNCHANGED <<procs, plmu, opts, heap, nextp, inflight>>

\* pl.mu.RLock(); p, present := pl.procs[id]; pl.mu.RUnlock(); if present {...}
Kill_Lookup(t) ==
    /\ At(t, "Kill_Lookup")
    /\ CanRLock(plmu)
    /\ plmu' = RUnlock(RLock(plmu, t), t)
    /\ IF procs[th[t].id] # NULL
       THEN /\ th' = [th EXCEPT ![t].pc = "Kill_Body", ![t].p = procs[th[t].id]]
            /\ ret' = ret
       ELSE /\ th' = Return(t)
            /\ ret' = [ret EXCEPT ![t] = Returned("Kill", th[t].id, th[t].arg,
                                                  KillReturn(FALSE, FALSE))]
    /\ UNCHANGED <<procs, opts, heap, nextp, now, inflight>>

\* Kill as it would be if it did not test for a pending request
killMark_Always(rec, ts, m) ==
    [rec EXCEPT !.isPending = TRUE, !.message = m,
                !.journal = addJournalEntry(@, ts, cancelRequestEntry(m))]

\* Kill as it would be if it left no entry in the journal
killMark_Unlogged(rec, ts, m) ==
    IF ~rec.isPending
    THEN [rec EXCEPT !.isPending = TRUE, !.message = m]
    ELSE rec

\* Kill as it would be if its entry took the place of the last one
killMark_Replace(rec, ts, m) ==
    IF ~rec.isPending
    THEN [rec EXCEPT !.isPending = TRUE, !.message = m,
                     !.journal = [@ EXCEPT ![Len(@)] =
                                     journalEntry(ts, cancelRequestEntry(m))]]
    ELSE rec

\* if !p.cancel.isPending { isPending = true; message = message;
\*                          p.addJournalEntry(ts, jentry) }
killMark(rec, ts, m) ==
    IF ~rec.isPending
    THEN [rec EXCEPT !.isPending = TRUE, !.message = m,
                     !.journal = addJournalEntry(@, ts, cancelRequestEntry(m))]
    ELSE rec

\* Kill as it would be if ForbidCancel were ignored
killUnlessForbidden_Ignored(rec, ts, m) == killMark(rec, ts, m)

\* a task started with ForbidCancel refuses the request untouched
killUnlessForbidden(rec, ts, m) == IF rec.forbid THEN rec ELSE killMark(rec, ts, m)

\* Kill as it would be if it wrote the proc that has the id when it writes
Kill_Body_Relookup(t) ==
    LET p == IF procs[th[t].id] # NULL THEN procs[th[t].id] ELSE th[t].p
    IN  /\ At(t, "Kill_Body")
        /\ CanLock(heap[p].mu)
        /\ heap' = [heap EXCEPT ![p] =
                      [killUnlessForbidden(@, th[t].ts, th[t].arg)
                          EXCEPT !.mu = Unlock(Lock(@, t))]]
        /\ ret' = [ret EXCEPT ![t] = Returned("Kill", th[t].id, th[t].arg,
                                              KillReturn(TRUE, heap[p].forbid))]
        /\ th' = Return(t)
        /\ UNCHANGED <<procs, plmu, opts, nextp, now, inflight>>

\* Kill as it would be if the request went to every task in the registry
Kill_Body_Broadcast(t) ==
    /\ At(t, "Kill_Body")
    /\ \A i \in Ids : procs[i] # NULL => CanLock(heap[procs[i]].mu)
    /\ CanLock(heap[th[t].p].mu)
    /\ heap' = [q \in ProcRefs |->
                  IF q = th[t].p \/ \E i \in Ids : procs[i] = q
                  THEN killUnlessForbidden(heap[q], th[t].ts, th[t].arg)
                  ELSE heap[q]]
    /\ ret' = [ret EXCEPT ![t] = Returned("Kill", th[t].id, th[t].arg,
                                          KillReturn(TRUE, heap[th[t].p].forbid))]
    /\ th' = Return(t)
    /\ UNCHANGED <<procs, plmu, opts, nextp, now, inflight>>

\* Kill as it would be if it threw the task out of the registry
Kill_Body_Evict(t) ==
    /\ At(t, "Kill_Body")
    /\ CanLock(heap[th[t].p].mu)
    /\ heap' = [heap EXCEPT ![th[t].p] =
                  [killUnlessForbidden(@, th[t].ts, th[t].arg)
                      EXCEPT !.mu = Unlock(Lock(@, t))]]
    /\ procs' = [procs EXCEPT ![th[t].id] = NULL]
    /\ ret' = [ret EXCEPT ![t] = Returned("Kill", th[t].id, th[t].arg,
                                          KillReturn(TRUE, heap[th[t].p].forbid))]
    /\ th' = Return(t)
    /\ UNCHANGED <<plmu, opts, nextp, now, inflight>>

\* p.mu.Lock(); defer p.mu.Unlock(); the body of Kill
Kill_Body(t) ==
    /\ At(t, "Kill_Body")
    /\ CanLock(heap[th[t].p].mu)
    /\ heap' = [heap EXCEPT ![th[t].p] =
                  [killUnlessForbidden(@, th[t].ts, th[t].arg)
                      EXCEPT !.mu = Unlock(Lock(@, t))]]
    /\ ret' = [ret EXCEPT ![t] = Returned("Kill", th[t].id, th[t].arg,
                                          KillReturn(TRUE, heap[th[t].p].forbid))]
    /\ th' = Return(t)
    /\ UNCHANGED <<procs, plmu, opts, nextp, now, inflight>>

\* ------------------------------------------------------------ done / Done
\* the journal entry done appends for the recovered value e
doneEntry(e) ==
    IF e # NoPanic
    THEN IF e.kind = "CancelErr" THEN e.message ELSE <<"aborted">>
    ELSE <<"ended">>

\* done as it would be if it re-raised whatever it recovered
doneRepanic_Always(e, stopPanic) == e

\* done as it would be if StopCancelPanic stopped every panic
doneRepanic_StopAny(e, stopPanic) == IF stopPanic THEN NoPanic ELSE e

\* the panic done leaves with when the task was in the registry
doneRepanic(e, stopPanic) ==
    IF e # NoPanic
    THEN IF e.kind = "CancelErr"
         THEN IF ~stopPanic THEN e ELSE NoPanic
         ELSE e
    ELSE NoPanic

\* done as it would be if it kept every panic when the id is unknown
doneMissing_Swallow(e, stopPanic) == NoPanic

\* the panic done leaves with when the id was not in the registry
doneMissing(e, stopPanic) ==
    IF e # NoPanic /\ (e.kind # "CancelErr" \/ ~stopPanic) THEN e ELSE NoPanic

\* done as it would be if it left the id in the registry
Done_Delete_Keep(t, id) ==
    /\ Idle(t)
    /\ CanLock(plmu)
    /\ procs' = procs
    /\ plmu' = Unlock(Lock(plmu, t))
    /\ IF procs[id] # NULL
       THEN /\ th' = [th EXCEPT ![t] = [NoLocals EXCEPT !.pc = "Done_Now", !.id = id,
                                          !.p = procs[id], !.e = inflight[t],
                                          !.stop = opts.StopCancelPanic]]
            /\ inflight' = [inflight EXCEPT ![t] = NoPanic]
            /\ ret' = [ret EXCEPT ![t] = NoRet]
       ELSE /\ th' = Return(t)
            /\ inflight' = [inflight EXCEPT ![t] =
                              doneMissing(inflight[t], opts.StopCancelPanic)]
            /\ ret' = [ret EXCEPT ![t] = Returned("Done", id, <<>>, <<>>)]
    /\ UNCHANGED <<opts, heap, nextp, now>>

\* done as it would be if it kept the task of a goroutine that is unwinding
Done_Delete_IfClean(t, id) ==
    /\ Idle(t)
    /\ CanLock(plmu)
    /\ procs' = IF inflight[t] = NoPanic THEN [procs EXCEPT ![id] = NULL] ELSE procs
    /\ plmu' = Unlock(Lock(plmu, t))
    /\ IF procs[id] # NULL
       THEN /\ th' = [th EXCEPT ![t] = [NoLocals EXCEPT !.pc = "Done_Now", !.id = id,
                                          !.p = procs[id], !.e = inflight[t],
                                          !.stop = opts.StopCancelPanic]]
            /\ inflight' = [inflight EXCEPT ![t] = NoPanic]
            /\ ret' = [ret EXCEPT ![t] = NoRet]
       ELSE /\ th' = Return(t)
            /\ inflight' = [inflight EXCEPT ![t] =
                              doneMissing(inflight[t], opts.StopCancelPanic)]
            /\ ret' = [ret EXCEPT ![t] = Returned("Done", id, <<>>, <<>>)]
    /\ UNCHANGED <<opts, heap, nextp, now>>

\* done as it would be if it did not read StopCancelPanic from the registry
Done_Delete_NoStop(t, id) ==
    /\ Idle(t)
    /\ CanLock(plmu)
    /\ procs' = [procs EXCEPT ![id] = NULL]
    /\ plmu' = Unlock(Lock(plmu, t))
    /\ IF procs[id] # NULL
       THEN /\ th' = [th EXCEPT ![t] = [NoLocals EXCEPT !.pc = "Done_Now", !.id = id,
                                          !.p = procs[id], !.e = inflight[t],
                                          !.stop = FALSE]]
            /\ inflight' = [inflight EXCEPT ![t] = NoPanic]
            /\ ret' = [ret EXCEPT ![t] = NoRet]
       ELSE /\ th' = Return(t)
            /\ inflight' = [inflight EXCEPT ![t] = doneMissing(inflight[t], FALSE)]
            /\ ret' = [ret EXCEPT ![t] = Returned("Done", id, <<>>, <<>>)]
    /\ UNCHANGED <<opts, heap, nextp, now>>

\* pl.done(id, recover()): recover() takes the panic in flight, if any;
\* pl.mu.Lock(); p, present := pl.procs[id]; if present { delete(pl.procs, id) }
\* stopPanic := pl.opts.StopCancelPanic; pl.mu.Unlock()
\* and, for an id that is not present, the else branch of done
Done_Delete(t, id) ==
    /\ Idle(t)
    /\ CanLock(plmu)
    /\ procs' = [procs EXCEPT ![id] = NULL]
    /\ plmu' = Unlock(Lock(plmu, t))
    /\ IF procs[id] # NULL
       THEN /\ th' = [th EXCEPT ![t] = [NoLocals EXCEPT !.pc = "Done_Now", !.id = id,
                                          !.p = procs[id], !.e = inflight[t],
                                          !.stop = opts.StopCancelPanic]]
            /\ inflight' = [inflight EXCEPT ![t] = NoPanic]
            /\ ret' = [ret EXCEPT ![t] = NoRet]
       ELSE /\ th' = Return(t)
            /\ inflight' = [inflight EXCEPT ![t] =
                              doneMissing(inflight[t], opts.StopCancelPanic)]
            /\ ret' = [ret EXCEPT ![t] = Returned("Done", id, <<>>, <<>>)]
    /\ UNCHANGED <<opts, heap, nextp, now>>

\* ts := time.Now()
Done_Now(t, n) ==
    /\ At(t, "Done_Now")
    /\ TimeNow(n)
    /\ th' = [th EXCEPT ![t].pc = "Done_Body", ![t].ts = n]
    /\ UNCHANGED <<procs, plmu, opts, heap, nextp, inflight, ret>>

\* done as it would be if a pending request made the task end as killed
Done_Body_ByFlag(t) ==
    /\ At(t, "Done_Body")
    /\ CanLock(heap[th[t].p].mu)
    /\ heap' = [heap EXCEPT ![th[t].p].journal =
                  addJournalEntry(@, th[t].ts,
                      IF heap[th[t].p].isPending /\ th[t].e = NoPanic
                      THEN doCancel(th[t].p, heap[th[t].p].message).message
                      ELSE doneEntry(th[t].e)),
                            ![th[t].p].mu = Unlock(Lock(@, t))]
    /\ inflight' = [inflight EXCEPT ![t] = doneRepanic(th[t].e, th[t].stop)]
    /\ th' = Return(t)
    /\ ret' = [ret EXCEPT ![t] = Returned("Done", th[t].id, <<>>, <<>>)]
    /\ UNCHANGED <<procs, plmu, opts, nextp, now>>

\* p.mu.Lock(); defer p.mu.Unlock(); the terminal journal entry; panic(e) if any
Done_Body(t) ==
    /\ At(t, "Done_Body")
    /\ CanLock(heap[th[t].p].mu)
    /\ heap' = [heap EXCEPT ![th[t].p].journal = addJournalEntry(@, th[t].ts, doneEntry(th[t].e)),
                            ![th[t].p].mu = Unlock(Lock(@, t))]
    /\ inflight' = [inflight EXCEPT ![t] = doneRepanic(th[t].e, th[t].stop)]
    /\ th' = Return(t)
    /\ ret' = [ret EXCEPT ![t] = Returned("Done", th[t].id, <<>>, <<>>)]
    /\ UNCHANGED <<procs, plmu, opts, nextp, now>>

\* ------------------------------------------------------- the task's own code
\* the task's code panics for a reason of its own
Fault(t) ==
    /\ Running(t)
    /\ inflight' = [inflight EXCEPT ![t] = OtherPanic]
    /\ ret' = [ret EXCEPT ![t] = NoRet]
    /\ UNCHANGED <<procs, plmu, opts, heap, nextp, now, th>>

\* a deferred function of the task recovers the panic and the task goes on
Recover(t) ==
    /\ Idle(t)
    /\ inflight[t] # NoPanic
    /\ inflight' = [inflight EXCEPT ![t] = NoPanic]
    /\ ret' = [ret EXCEPT ![t] = NoRet]
    /\ UNCHANGED <<procs, plmu, opts, heap, nextp, now, th>>

\* ------------------------------------------------------------- SetOptions
\* the options given to SetOptions, as the fields that are set
OptsText(b) == IF b THEN <<"StopCancelPanic">> ELSE <<>>

\* SetOptions as it would be if the options were only used by later Starts
SetOptions_Deferred(t, b) ==
    /\ Running(t)
    /\ CanLock(plmu)
    /\ opts' = IF \E id \in Ids : procs[id] # NULL THEN opts
               ELSE [StopCancelPanic |-> b]
    /\ plmu' = Unlock(Lock(plmu, t))
    /\ ret' = [ret EXCEPT ![t] = Returned("SetOptions", "none", OptsText(b), <<>>)]
    /\ UNCHANGED <<procs, heap, nextp, now, th, inflight>>

\* pl.mu.Lock(); defer pl.mu.Unlock(); pl.opts = opts
SetOptions(t, b) ==
    /\ Running(t)
    /\ CanLock(plmu)
    /\ opts' = [StopCancelPanic |-> b]
    /\ plmu' = Unlock(Lock(plmu, t))
    /\ ret' = [ret EXCEPT ![t] = Returned("SetOptions", "none", OptsText(b), <<>>)]
    /\ UNCHANGED <<procs, heap, nextp, now, th, inflight>>

\* --------------------------------------------------------------- getProcs
\* AttrDetail{Name: name, Value: value}
AttrDetail(kv) == [Name |-> kv[1], Value |-> kv[2]]

\* the conversion as it would be if it stopped after the first pair
AttrLists_Short(attrs) == {<<AttrDetail(kv)>> : kv \in attrs}

\* the slices that ranging over the map can build: its pairs, each once, in
\* any order
AttrLists(attrs) ==
    {[k \in 1..Cardinality(attrs) |-> AttrDetail(s[k])] :
        s \in {q \in [1..Cardinality(attrs) -> attrs] :
                  \A i, j \in 1..Cardinality(attrs) : i # j => q[i] # q[j]}}

\* one element of the slice getProcs returns
ProcDetail(id, attrs, firstJEntry, lastJEntry, isPending) ==
    [Id |-> id, Attrs |-> attrs,
     ProcTm |-> firstJEntry.ts,
     StatusTm |-> lastJEntry.ts,
     Status |-> lastJEntry.status,
     Cancelling |-> isPending]

\* getProcs as it would be if it ranged over pl.procs without pl.mu.RLock()
getProcs_RLock_Unlocked(t) ==
    /\ Running(t)
    /\ th' = [th EXCEPT ![t] = [NoLocals EXCEPT !.pc = "getProcs_Range",
                                   !.todo = {i \in Ids : procs[i] # NULL}]]
    /\ ret' = [ret EXCEPT ![t] = NoRet]
    /\ UNCHANGED <<procs, plmu, opts, heap, nextp, now, inflight>>

\* pl.mu.RLock(); defer pl.mu.RUnlock(); for id, p := range pl.procs
getProcs_RLock(t) ==
    /\ Running(t)
    /\ CanRLock(plmu)
    /\ plmu' = RLock(plmu, t)
    /\ th' = [th EXCEPT ![t] = [NoLocals EXCEPT !.pc = "getProcs_Range",
                                   !.todo = {i \in Ids : procs[i] # NULL}]]
    /\ ret' = [ret EXCEPT ![t] = NoRet]
    /\ UNCHANGED <<procs, opts, heap, nextp, now, inflight>>

\* the range as it would be without p.mu.RLock()
getProcs_PRLock_Unlocked(t, id) ==
    /\ At(t, "getProcs_Range")
    /\ id \in th[t].todo
    /\ th' = [th EXCEPT ![t].pc = "getProcs_Entries", ![t].id = id, ![t].p = procs[id]]
    /\ UNCHANGED <<procs, plmu, opts, heap, nextp, now, inflight, ret>>

\* the next id of the range, in any order; p.mu.RLock()
getProcs_PRLock(t, id) ==
    /\ At(t, "getProcs_Range")
    /\ id \in th[t].todo
    /\ CanRLock(heap[procs[id]].mu)
    /\ heap' = [heap EXCEPT ![procs[id]].mu = RLock(@, t)]
    /\ th' = [th EXCEPT ![t].pc = "getProcs_Entries", ![t].id = id, ![t].p = procs[id]]
    /\ UNCHANGED <<procs, plmu, opts, nextp, now, inflight, ret>>

\* attrs := make([]AttrDetail, ...); for name, value := range p.attrs {...}
\* firstJEntry := p.journal.Front(); lastJEntry := p.journal.Back()
getProcs_Entries(t) ==
    /\ At(t, "getProcs_Entries")
    /\ \E attrs \in AttrLists(heap[th[t].p].attrs) :
         th' = [th EXCEPT ![t].pc = "getProcs_Read",
                          ![t].attrDetails = attrs,
                          ![t].firstJEntry = Head(heap[th[t].p].journal),
                          ![t].lastJEntry =
                              heap[th[t].p].journal[Len(heap[th[t].p].journal)]]
    /\ UNCHANGED <<procs, plmu, opts, heap, nextp, now, inflight, ret>>

\* procs = append(procs, ProcDetail{..., Cancelling: p.cancel.isPending})
\* p.mu.RUnlock()
getProcs_Read(t) ==
    /\ At(t, "getProcs_Read")
    /\ heap' = [heap EXCEPT ![th[t].p].mu = RUnlock(@, t)]
    /\ th' = [th EXCEPT ![t].pc = "getProcs_Range", ![t].id = "none", ![t].p = NULL,
                        ![t].todo = @ \ {th[t].id},
                        ![t].attrDetails = <<>>,
                        ![t].firstJEntry = NoEntry, ![t].lastJEntry = NoEntry,
                        ![t].out = Append(@, ProcDetail(th[t].id, th[t].attrDetails,
                                                        th[t].firstJEntry, th[t].lastJEntry,
                                                        heap[th[t].p].isPending))]
    /\ UNCHANGED <<procs, plmu, opts, nextp, now, inflight, ret>>

\* the return as it would be without the deferred pl.mu.RUnlock()
getProcs_Return_Held(t) ==
    /\ At(t, "getProcs_Range")
    /\ th[t].todo = {}
    /\ plmu' = plmu
    /\ th' = Return(t)
    /\ ret' = [ret EXCEPT ![t] = Returned("getProcs", "none", <<>>, <<>>)]
    /\ UNCHANGED <<procs, opts, heap, nextp, now, inflight>>

\* return procs, and the deferred pl.mu.RUnlock()
getProcs_Return(t) ==
    /\ At(t, "getProcs_Range")
    /\ th[t].todo = {}
    /\ plmu' = RUnlock(plmu, t)
    /\ th' = Return(t)
    /\ ret' = [ret EXCEPT ![t] = Returned("getProcs", "none", <<>>, <<>>)]
    /\ UNCHANGED <<procs, opts, heap, nextp, now, inflight>>

\* ------------------------------------------------------------- getJournal
\* the lookup as it would be with a deferred pl.mu.RUnlock()
getJournal_Lookup_Held(t, id) ==
    /\ Running(t)
    /\ CanRLock(plmu)
    /\ plmu' = IF procs[id] # NULL THEN RLock(plmu, t) ELSE plmu
    /\ th' = IF procs[id] # NULL
             THEN [th EXCEPT ![t] = [NoLocals EXCEPT !.pc = "getJournal_Read", !.id = id,
                                                    !.p = procs[id]]]
             ELSE [th EXCEPT ![t] = [NoLocals EXCEPT !.pc = "getJournal_Empty", !.id = id]]
    /\ ret' = [ret EXCEPT ![t] = NoRet]
    /\ UNCHANGED <<procs, opts, heap, nextp, now, inflight>>

\* pl.mu.RLock(); p, present := pl.procs[id]; pl.mu.RUnlock()
getJournal_Lookup(t, id) ==
    /\ Running(t)
    /\ CanRLock(plmu)
    /\ plmu' = RUnlock(RLock(plmu, t), t)
    /\ th' = IF procs[id] # NULL
             THEN [th EXCEPT ![t] = [NoLocals EXCEPT !.pc = "getJournal_Read", !.id = id,
                                                    !.p = procs[id]]]
             ELSE [th EXCEPT ![t] = [NoLocals EXCEPT !.pc = "getJournal_Empty", !.id = id]]
    /\ ret' = [ret EXCEPT ![t] = NoRet]
    /\ UNCHANGED <<procs, opts, heap, nextp, now, inflight>>

\* the lookup as it would be with the result of a found journal
getJournal_Empty_Silent(t) ==
    /\ At(t, "getJournal_Empty")
    /\ th' = Return(t)
    /\ ret' = [ret EXCEPT ![t] = Returned("getJournal", th[t].id, <<>>, <<"nil">>)]
    /\ UNCHANGED <<procs, plmu, opts, heap, nextp, now, inflight>>

\* if !present { return []HistoryDetail{}, ErrNoSuchProcess }
getJournal_Empty(t) ==
    /\ At(t, "getJournal_Empty")
    /\ th' = Return(t)
    /\ ret' = [ret EXCEPT ![t] = Returned("getJournal", th[t].id, <<>>,
                                          <<"ErrNoSuchProcess">>)]
    /\ UNCHANGED <<procs, plmu, opts, heap, nextp, now, inflight>>

\* p.mu.RLock(); defer p.mu.RUnlock(); the copy of the journal, front to back
getJournal_Read(t) ==
    /\ At(t, "getJournal_Read")
    /\ CanRLock(heap[th[t].p].mu)
    /\ heap' = [heap EXCEPT ![th[t].p].mu = RLock(@, t)]
    /\ th' = [th EXCEPT ![t].pc = "getJournal_Return", ![t].out = heap[th[t].p].journal]
    /\ UNCHANGED <<procs, plmu, opts, nextp, now, inflight, ret>>

\* getHistory in the revision that keeps, in p.currentStatus and
\* p.latestUpdate, what the last journal entry holds here:
\* p.mu.RLock(); defer p.mu.RUnlock()
\* p.history[p.currentStatus] += time.Since(p.latestUpdate)
\* p.latestUpdate = time.Now(); and the copy of the history.
\* The time added to p.history is not kept in this model.
getHistory_Read(t, n) ==
    /\ At(t, "getJournal_Read")
    /\ CanRLock(heap[th[t].p].mu)
    /\ TimeNow(n)
    /\ LET j == heap[th[t].p].journal
           touched == [j EXCEPT ![Len(j)].ts = n]
       IN  /\ heap' = [heap EXCEPT ![th[t].p].mu = RLock(@, t),
                                   ![th[t].p].journal = touched]
           /\ th' = [th EXCEPT ![t].pc = "getJournal_Return", ![t].out = touched]
    /\ UNCHANGED <<procs, plmu, opts, nextp, inflight, ret>>

\* return history, nil; and the deferred p.mu.RUnlock()
getJournal_Return(t) ==
    /\ At(t, "getJournal_Return")
    /\ heap' = [heap EXCEPT ![th[t].p].mu = RUnlock(@, t)]
    /\ th' = Return(t)
    /\ ret' = [ret EXCEPT ![t] = Returned("getJournal", th[t].id, <<>>, <<"nil">>)]
    /\ UNCHANGED <<procs, plmu, opts, nextp, now, inflight>>

\* ------------------------------------------------------------------- Next
WorkerStep(t, cap) ==
    \/ \E id \in Ids, a \in AttrSets, f \in BOOLEAN, n \in Clock :
          Start_New(t, id, a, f, n, cap)
    \/ Start_Put(t)
    \/ \E id \in Ids, s \in Labels, n \in Clock : Status_Now(t, id, s, n, MaxStatus)
    \/ Status_Lookup(t)
    \/ Status_Body(t)
    \/ \E id \in Ids : CheckCancel_Lookup(t, id)
    \/ CheckCancel_Body(t)
    \/ \E id \in Ids : Done_Delete(t, id)
    \/ \E n \in Clock : Done_Now(t, n)
    \/ Done_Body(t)
    \/ Fault(t)
    \/ Recover(t)

AdminStep(t) ==
    \/ \E id \in Ids, m \in Messages, n \in Clock : Kill_Now(t, id, m, n)
    \/ Kill_Lookup(t)
    \/ Kill_Body(t)
    \/ \E b \in BOOLEAN : SetOptions(t, b)
    \/ getProcs_RLock(t)
    \/ \E id \in Ids : getProcs_PRLock(t, id)
    \/ getProcs_Entries(t)
    \/ getProcs_Read(t)
    \/ getProcs_Return(t)
    \/ \E id \in Ids : getJournal_Lookup(t, id)
    \/ getJournal_Empty(t)
    \/ getJournal_Read(t)
    \/ getJournal_Return(t)

\* the steps of a system in which Start is called at most cap times
Step(cap) ==
    \/ \E t \in Workers : WorkerStep(t, cap)
    \/ \E t \in Admins : AdminStep(t)

Next == Step(MaxTasks)

Spec == Init /\ [][Next]_vars

\* A task that is not cancelled and reports two kinds of progress, several
\* times, while the journal and the snapshot are being read.
LabelsNext ==
    \/ \E t \in Workers :
          \/ \E id \in Ids, a \in AttrSets, n \in Clock :
                Start_New(t, id, a, FALSE, n, MaxTasks)
          \/ Start_Put(t)
          \/ \E id \in Ids, s \in Labels2, n \in Clock :
                Status_Now(t, id, s, n, MaxLabelled)
          \/ Status_Lookup(t)
          \/ Status_Body(t)
          \/ \E id \in Ids : Done_Delete(t, id)
          \/ \E n \in Clock : Done_Now(t, n)
          \/ Done_Body(t)
    \/ \E t \in Admins :
          \/ getProcs_RLock(t)
          \/ \E id \in Ids : getProcs_PRLock(t, id)
          \/ getProcs_Entries(t)
          \/ getProcs_Read(t)
          \/ getProcs_Return(t)
          \/ \E id \in Ids : getJournal_Lookup(t, id)
          \/ getJournal_Empty(t)
          \/ getJournal_Read(t)
          \/ getJournal_Return(t)

SpecLabels == Init /\ [][LabelsNext]_vars

\* Two goroutines that start and finish tasks with different attribute maps,
\* under the same id or under different ids, while snapshots are taken; the
\* clock is read but does not advance.
PairNext ==
    \/ \E t \in Workers2 :
          \/ \E id \in Ids, a \in AttrSets2, n \in {now} :
                Start_New(t, id, a, FALSE, n, MaxProcs)
          \/ Start_Put(t)
          \/ \E id \in Ids : Done_Delete(t, id)
          \/ \E n \in {now} : Done_Now(t, n)
          \/ Done_Body(t)
    \/ \E t \in Admins :
          \/ getProcs_RLock(t) \/ \E id \in Ids : getProcs_PRLock(t, id)
          \/ getProcs_Entries(t) \/ getProcs_Read(t) \/ getProcs_Return(t)

SpecPair == Init /\ [][PairNext]_vars

\* A task that starts while StopCancelPanic is unset, and a program that only
\* calls SetOptions once a task is in the registry.
LateNext ==
    \/ \E t \in Workers : WorkerStep(t, MaxTasks)
    \/ \E t \in Admins :
          \/ \E id \in Ids, m \in Messages, n \in Clock : Kill_Now(t, id, m, n)
          \/ Kill_Lookup(t)
          \/ Kill_Body(t)
          \/ \E b \in BOOLEAN :
                (\E id \in Ids : procs[id] # NULL) /\ SetOptions(t, b)

SpecLate == Init /\ [][LateNext]_vars

\* A task that reports progress and finishes while one goroutine takes
\* snapshots and another one asks the task to stop.
SnapNext ==
    \/ \E t \in Workers :
          \/ \E id \in Ids, a \in AttrSets, n \in Clock :
                Start_New(t, id, a, FALSE, n, MaxTasks)
          \/ Start_Put(t)
          \/ \E id \in Ids, s \in Labels, n \in Clock :
                Status_Now(t, id, s, n, MaxStatus)
          \/ Status_Lookup(t)
          \/ Status_Body(t)
          \/ \E id \in Ids : Done_Delete(t, id)
          \/ \E n \in Clock : Done_Now(t, n)
          \/ Done_Body(t)
    \/ \E t \in Admins :
          \/ getProcs_RLock(t)
          \/ \E id \in Ids : getProcs_PRLock(t, id)
          \/ getProcs_Entries(t) \/ getProcs_Read(t) \/ getProcs_Return(t)
    \/ \E t \in Admins2 \ Admins :
          \/ \E id \in Ids, m \in Messages, n \in Clock : Kill_Now(t, id, m, n)
          \/ Kill_Lookup(t)
          \/ Kill_Body(t)

SpecSnap == Init /\ [][SnapNext]_vars

\* A task that reports progress and finishes while its history is asked for
\* through the getHistory that updates p.latestUpdate.
HistNext ==
    \/ \E t \in Workers :
          \/ \E id \in Ids, a \in AttrSets, n \in Clock :
                Start_New(t, id, a, FALSE, n, MaxTasks)
          \/ Start_Put(t)
          \/ \E id \in Ids, s \in Labels, n \in Clock :
                Status_Now(t, id, s, n, MaxStatus)
          \/ Status_Lookup(t)
          \/ Status_Body(t)
          \/ \E id \in Ids : Done_Delete(t, id)
          \/ \E n \in Clock : Done_Now(t, n)
          \/ Done_Body(t)
    \/ \E t \in Admins :
          \/ \E id \in Ids : getJournal_Lookup(t, id)
          \/ getJournal_Empty(t)
          \/ \E n \in Clock : getHistory_Read(t, n)
          \/ getJournal_Return(t)

SpecHist == Init /\ [][HistNext]_vars

\* A goroutine that runs one task after the other, under the same id or under
\* another one, while the tasks are asked to stop and their journals are
\* read; the clock is read but does not advance.
RestartNext ==
    \/ \E t \in Workers :
          \/ \E id \in Ids, a \in AttrSets, n \in {now} :
                Start_New(t, id, a, FALSE, n, MaxRestarts)
          \/ Start_Put(t)
          \/ \E id \in Ids : CheckCancel_Lookup(t, id)
          \/ CheckCancel_Body(t)
          \/ \E id \in Ids : Done_Delete(t, id)
          \/ \E n \in {now} : Done_Now(t, n)
          \/ Done_Body(t)
          \/ Recover(t)
    \/ \E t \in Admins :
          \/ \E id \in Ids, m \in Messages, n \in {now} : Kill_Now(t, id, m, n)
          \/ Kill_Lookup(t)
          \/ Kill_Body(t)
          \/ \E id \in Ids : getJournal_Lookup(t, id)
          \/ getJournal_Empty(t)
          \/ getJournal_Read(t)
          \/ getJournal_Return(t)

SpecRestart == Init /\ [][RestartNext]_vars

\* the id of the task that a goroutine runs in SpecTwo
OwnId(t) == IF t \in Workers THEN "t1" ELSE "t2"

\* Two goroutines that run one task each, under two ids, reporting progress
\* and passing checkpoints, while the tasks are asked to stop; the clock is
\* read but does not advance.
TwoNext ==
    \/ \E t \in Workers2 :
          \/ \E a \in AttrSets, n \in {now} :
                Start_New(t, OwnId(t), a, FALSE, n, MaxRestarts)
          \/ Start_Put(t)
          \/ \E s \in Labels, n \in {now} :
                Status_Now(t, OwnId(t), s, n, MaxStatus)
          \/ Status_Lookup(t)
          \/ Status_Body(t)
          \/ CheckCancel_Lookup(t, OwnId(t))
          \/ CheckCancel_Body(t)
          \/ Done_Delete(t, OwnId(t))
          \/ \E n \in {now} : Done_Now(t, n)
          \/ Done_Body(t)
    \/ \E t \in Admins :
          \/ \E id \in Ids, n \in {now} : Kill_Now(t, id, <<>>, n)
          \/ Kill_Lookup(t)
          \/ Kill_Body(t)

SpecTwo == Init /\ [][TwoNext]_vars

\* ------------------------------------------------- blocked calls of Lock
\* the labels at which a goroutine calls pl.mu.Lock() or p.mu.Lock()
WriterLabels == {"Start_Put", "Status_Body", "CheckCancel_Body", "Kill_Body",
                 "Done_Body"}

\* a call of pl.mu.Lock() is blocked
RegistryAwaited == \E u \in Threads : th[u].waits /\ th[u].pc = "Start_Put"

\* a call of p.mu.Lock() is blocked
RecordAwaited(p) ==
    \E u \in Threads : th[u].waits /\ th[u].pc # "Start_Put" /\ th[u].p = p

\* pl.mu.Lock() or p.mu.Lock() has been called and has not returned: the
\* call has passed the mutex that sync.RWMutex keeps for its writers, one at
\* a time, and from then on the RWMutex lets no new reader in
LockCall(t) ==
    /\ th[t].pc \in WriterLabels
    /\ ~th[t].waits
    /\ IF th[t].pc = "Start_Put" THEN ~RegistryAwaited ELSE ~RecordAwaited(th[t].p)
    /\ th' = [th EXCEPT ![t].waits = TRUE]
    /\ UNCHANGED <<procs, plmu, opts, heap, nextp, now, inflight, ret>>

\* A goroutine that runs a task, reporting progress and passing checkpoints,
\* a goroutine that takes snapshots and asks the task to stop, and one that
\* reads the journal and sets the options. A call of RLock does not return
\* while a call of Lock on the same mutex is blocked; the clock is read but
\* does not advance, and a goroutine that was interrupted calls Done.
FairNext ==
    \/ \E t \in Workers :
          \/ \E id \in Ids, a \in AttrSets, n \in {now} :
                Start_New(t, id, a, FALSE, n, MaxTasks)
          \/ Start_Put(t)
          \/ \E id \in Ids, s \in Labels, n \in {now} :
                Status_Now(t, id, s, n, MaxStatus)
          \/ ~RegistryAwaited /\ Status_Lookup(t)
          \/ Status_Body(t)
          \/ \E id \in Ids : ~RegistryAwaited /\ CheckCancel_Lookup(t, id)
          \/ CheckCancel_Body(t)
          \/ \E id \in Ids : Done_Delete(t, id)
          \/ \E n \in {now} : Done_Now(t, n)
          \/ Done_Body(t)
          \/ LockCall(t)
    \/ \E t \in Admins :
          \/ \E id \in Ids, n \in {now} : Kill_Now(t, id, <<>>, n)
          \/ ~RegistryAwaited /\ Kill_Lookup(t)
          \/ Kill_Body(t)
          \/ LockCall(t)
          \/ ~RegistryAwaited /\ getProcs_RLock(t)
          \/ \E id \in Ids : ~RecordAwaited(procs[id]) /\ getProcs_PRLock(t, id)
          \/ getProcs_Entries(t)
          \/ getProcs_Read(t)
          \/ getProcs_Return(t)
    \/ \E t \in Admins2 \ Admins :
          \/ SetOptions(t, TRUE)
          \/ \E id \in Ids : ~RegistryAwaited /\ getJournal_Lookup(t, id)
          \/ getJournal_Empty(t)
          \/ ~RecordAwaited(th[t].p) /\ getJournal_Read(t)
          \/ getJournal_Return(t)

\* the goroutines of SpecFair
FairThreads == Workers \cup Admins2

\* goroutine t takes a step of the operation it is in
Proceed(t) == FairNext /\ th[t].pc # "idle" /\ th'[t] # th[t]

\* The scheduler runs every goroutine that can run, and sync.RWMutex hands a
\* lock that is released again and again to the goroutine that waits for it.
SpecFair == Init /\ [][FairNext]_vars /\ \A t \in FairThreads : SF_vars(Proceed(t))

\* ============================================================= properties
Last(j) == j[Len(j)]

\* goroutine t takes the step that leaves label l
Leaves(t, l) == th[t].pc = l /\ th'[t].pc # l

\* goroutine t, idle, takes the step that enters label l
Enters(t, l) == th[t].pc = "idle" /\ th'[t].pc = l

\* goroutine t completes a call of op
Completes(t, op) == th'[t].pc = "idle" /\ ret'[t].op = op /\ ret'[t] # ret[t]

\* the text of the interrupt and of the terminal entry for a Kill message
KilledText(m) == IF m = <<>> THEN <<"killed">> ELSE <<"killed", ": ">> \o m

\* the text of the journal entry for a Kill message
CancelRequestText(m) ==
    IF m = <<>> THEN <<"[cancel request]">> ELSE <<"[cancel request: ">> \o m \o <<"]">>

\* goroutine t leaves the body of a checkpoint (Status or CheckCancel)
LeavesCheckpoint(t) == Leaves(t, "Status_Body") \/ Leaves(t, "CheckCancel_Body")

\* C1: a Kill that finds the task live with no request pending records its
\* message and sets the pending flag; a checkpoint (Status or CheckCancel)
\* that finds the flag set raises the interrupt carrying that message; and no
\* step clears the flag or changes the message, so that every later
\* checkpoint on the task raises again.
C1_CheckpointRaisesWhilePending ==
    [][/\ \A t \in Threads :
            /\ (Leaves(t, "Kill_Body") /\ ret'[t].val = <<"nil">>
                    /\ ~heap[th[t].p].isPending)
               => /\ heap'[th[t].p].isPending
                  /\ heap'[th[t].p].message = th[t].arg
            /\ (LeavesCheckpoint(t) /\ heap[th[t].p].isPending)
               => /\ inflight'[t].kind = "CancelErr"
                  /\ inflight'[t].message = KilledText(heap[th[t].p].message)
       /\ \A p \in ProcRefs :
            heap[p].isPending
            => heap'[p].isPending /\ heap'[p].message = heap[p].message]_vars

\* a Status that came after the request has raised, and a later CheckCancel
\* has raised again, the task still live and the request still pending
C1_Witness ==
    \E t \in Workers, id \in Ids :
        /\ procs[id] # NULL
        /\ heap[procs[id]].isPending
        /\ heap[procs[id]].message = <<"bye">>
        /\ Len(heap[procs[id]].journal) = 3
        /\ heap[procs[id]].journal[2].status = <<"[cancel request: ", "bye", "]">>
        /\ heap[procs[id]].journal[3].status = <<"reading">>
        /\ ret[t] = Returned("CheckCancel", id, <<>>, <<>>)
        /\ inflight[t] = CancelErr(<<"killed", ": ", "bye">>, procs[id])

\* goroutine t appends exactly the entry (th[t].ts, status) to the journal of
\* the proc it works on
AppendsEntry(t, status) ==
    heap'[th[t].p].journal =
        Append(heap[th[t].p].journal, [ts |-> th[t].ts, status |-> status])

\* C2: Done called while the goroutine unwinds from the task's own
\* cancellation interrupt takes the interrupt and reads StopCancelPanic in its
\* registry step; its last step appends the interrupt's text, which begins
\* with "killed", as one more journal entry, and leaves no panic in flight if
\* the option was set, the same interrupt in flight if it was not.
C2_DoneAfterOwnInterrupt ==
    [][\A t \in Threads :
          /\ (Enters(t, "Done_Now") /\ inflight[t].kind = "CancelErr")
             => /\ th'[t].e = inflight[t]
                /\ th'[t].stop = opts.StopCancelPanic
          /\ (Leaves(t, "Done_Body") /\ th[t].e.kind = "CancelErr"
                  /\ th[t].e.by = th[t].p)
             => /\ AppendsEntry(t, th[t].e.message)
                /\ Head(th[t].e.message) = "killed"
                /\ inflight'[t] = IF th[t].stop THEN NoPanic ELSE th[t].e]_vars

\* Done has just returned without a panic, having recorded "killed: bye"
C2_Witness ==
    \E t \in Workers, p \in ProcRefs :
        /\ ret[t].op = "Done"
        /\ inflight[t] = NoPanic
        /\ heap[p].journal # <<>>
        /\ Last(heap[p].journal).status = <<"killed", ": ", "bye">>

\* C3: Done called while the goroutine unwinds from a panic that is not a
\* cancellation interrupt appends "aborted" and leaves the same panic in
\* flight, whatever StopCancelPanic was and whether or not a request is
\* pending; for an id that is not in the registry it appends nothing and
\* leaves the panic in flight as well.
C3_DoneAfterFault ==
    [][\A t \in Threads :
          /\ (Enters(t, "Done_Now") /\ inflight[t].kind = "fault")
             => th'[t].e = inflight[t]
          /\ (th[t].pc = "idle" /\ Completes(t, "Done") /\ inflight[t].kind = "fault")
             => inflight'[t] = inflight[t] /\ heap' = heap
          /\ (Leaves(t, "Done_Body") /\ th[t].e.kind = "fault")
             => /\ AppendsEntry(t, <<"aborted">>)
                /\ inflight'[t] = th[t].e]_vars

\* Done has just returned with the fault in flight, with StopCancelPanic set
\* and a request pending on the task, having recorded "aborted"
C3_Witness ==
    \E t \in Workers, p \in ProcRefs :
        /\ ret[t].op = "Done"
        /\ inflight[t] = OtherPanic
        /\ opts.StopCancelPanic
        /\ heap[p].isPending
        /\ heap[p].journal # <<>>
        /\ Last(heap[p].journal).status = <<"aborted">>

\* the ids a snapshot in progress has listed so far
Listed(t) == {th[t].out[k].Id : k \in 1..Len(th[t].out)}

InSnapshot(t) == th[t].pc \in {"getProcs_Range", "getProcs_Entries", "getProcs_Read"}

\* C4: Done on a task in the registry with no panic in flight removes the id
\* from the registry in its first step and appends "ended" in its last,
\* raising nothing; and a snapshot lists only ids that are in the registry, so
\* that none taken from then on lists the id.
C4_DoneEnds ==
    /\ [][\A t \in Threads :
             /\ Enters(t, "Done_Now")
                => procs'[th'[t].id] = NULL /\ th'[t].p = procs[th'[t].id]
             /\ (Leaves(t, "Done_Body") /\ th[t].e = NoPanic)
                => AppendsEntry(t, <<"ended">>) /\ inflight'[t] = NoPanic]_vars
    /\ [](\A t \in Threads : InSnapshot(t) => \A id \in Listed(t) : procs[id] # NULL)

\* Done has returned, "ended" is recorded, and a snapshot that has gone
\* through the whole registry since has listed nothing
C4_Witness ==
    \E w \in Workers, a \in Admins, p \in ProcRefs :
        /\ ret[w].op = "Done"
        /\ inflight[w] = NoPanic
        /\ procs[ret[w].id] = NULL
        /\ heap[p].journal # <<>>
        /\ Last(heap[p].journal).status = <<"ended">>
        /\ th[a].pc = "getProcs_Range"
        /\ th[a].todo = {}
        /\ th[a].out = <<>>

\* C5: the interrupt a checkpoint raises for a request with message m carries
\* "killed: m", or "killed" when m is empty; Done, unwinding from it, appends
\* that same text as the journal entry; and Done has by then removed the id
\* from the registry.
C5_KilledText ==
    [][\A t \in Threads :
          /\ (LeavesCheckpoint(t) /\ heap[th[t].p].isPending)
             => inflight'[t] = CancelErr(KilledText(heap[th[t].p].message), th[t].p)
          /\ (Leaves(t, "Done_Body") /\ th[t].e.kind = "CancelErr"
                  /\ th[t].e.by = th[t].p)
             => /\ th[t].e.message = KilledText(heap[th[t].p].message)
                /\ AppendsEntry(t, KilledText(heap[th[t].p].message))
                /\ \A id \in Ids : procs[id] # th[t].p]_vars

\* a task killed with "bye": Done has returned with the interrupt still in
\* flight, having recorded the interrupt's text and removed the id
C5_Witness ==
    \E t \in Workers, p \in ProcRefs :
        /\ ret[t].op = "Done"
        /\ inflight[t] = CancelErr(<<"killed", ": ", "bye">>, p)
        /\ heap[p].message = <<"bye">>
        /\ heap[p].journal # <<>>
        /\ Last(heap[p].journal).status = <<"killed", ": ", "bye">>
        /\ \A id \in Ids : procs[id] # p

\* the cancel request entries of a journal
CancelRequests(j) ==
    {k \in 1..Len(j) : j[k].status \in {CancelRequestText(m) : m \in Messages}}

\* C6: a Kill that finds a request pending changes nothing in the task: the
\* flag stays set, the first message stays and no entry is appended; a Kill
\* that finds none pending on a task that allows cancelling appends exactly
\* the entry "[cancel request]" or "[cancel request: m]".
C6_KillOnce ==
    [][\A t \in Threads :
          Leaves(t, "Kill_Body")
          => IF heap[th[t].p].isPending
             THEN heap'[th[t].p] = heap[th[t].p]
             ELSE ~heap[th[t].p].forbid
                  => /\ AppendsEntry(t, CancelRequestText(th[t].arg))
                     /\ heap'[th[t].p].isPending
                     /\ heap'[th[t].p].message = th[t].arg]_vars

\* a Kill with message "bye" has returned on a task whose request, made with
\* no message, is still the one recorded, once
C6_Witness ==
    \E t \in Admins, id \in Ids :
        /\ ret[t] = Returned("Kill", id, <<"bye">>, <<"nil">>)
        /\ procs[id] # NULL
        /\ heap[procs[id]].isPending
        /\ heap[procs[id]].message = <<>>
        /\ Cardinality(CancelRequests(heap[procs[id]].journal)) = 1
        /\ \E k \in 1..Len(heap[procs[id]].journal) :
              heap[procs[id]].journal[k].status = <<"[cancel request]">>

\* C7: Kill on a task started with ForbidCancel returns ErrForbidden and leaves
\* the task as it was: no request becomes pending and no entry is appended.
\* Such a task never has a request pending, and no checkpoint on it raises.
C7_ForbidCancel ==
    /\ [][\A t \in Threads :
             /\ (Leaves(t, "Kill_Body") /\ heap[th[t].p].forbid)
                => /\ ret'[t] = Returned("Kill", th[t].id, th[t].arg, <<"ErrForbidden">>)
                   /\ heap'[th[t].p] = heap[th[t].p]
             /\ (LeavesCheckpoint(t) /\ heap[th[t].p].forbid)
                => inflight'[t] = NoPanic]_vars
    /\ [](\A p \in ProcRefs :
             heap[p].forbid
             => ~heap[p].isPending /\ CancelRequests(heap[p].journal) = {})

\* Kill has returned ErrForbidden for a task that is still live with nothing
\* pending, and a CheckCancel on it has returned without a panic
C7_Witness ==
    \E a \in Admins, w \in Workers, id \in Ids :
        /\ ret[a] = Returned("Kill", id, <<"bye">>, <<"ErrForbidden">>)
        /\ procs[id] # NULL
        /\ heap[procs[id]].forbid
        /\ ~heap[procs[id]].isPending
        /\ ret[w] = Returned("CheckCancel", id, <<>>, <<>>)
        /\ inflight[w] = NoPanic

C9_CheckpointUnknown ==
    [][\A t \in Threads :
          /\ (Leaves(t, "Status_Lookup") /\ procs[th[t].id] = NULL)
             => /\ th'[t].pc = "idle"
                /\ UNCHANGED <<procs, heap, opts, nextp, inflight>>
          /\ (th[t].pc = "idle" /\ Completes(t, "CheckCancel"))
             => /\ procs[ret'[t].id] = NULL
                /\ UNCHANGED <<procs, heap, opts, nextp, inflight>>]_vars

\* before any task was started, a Status has returned without a panic
C9_Witness ==
    \E t \in Workers, id \in Ids :
        /\ ret[t] = Returned("Status", id, <<"reading">>, <<>>)
        /\ inflight[t] = NoPanic
        /\ nextp = 1
        /\ \A i \in Ids : procs[i] = NULL

\* C10: a proc enters the registry with a journal of exactly one entry, "init";
\* the journal of a task in the registry is never empty and begins with "init",
\* and so does every journal getJournal has copied.
C10_InitEntry ==
    /\ \A t \in Threads :
          th[t].pc = "Start_Put"
          => /\ Len(heap[th[t].p].journal) = 1
             /\ heap[th[t].p].journal[1].status = <<"init">>
    /\ \A id \in Ids :
          procs[id] # NULL
          => /\ heap[procs[id]].journal # <<>>
             /\ heap[procs[id]].journal[1].status = <<"init">>
    /\ \A t \in Threads :
          th[t].pc = "getJournal_Return"
          => th[t].out # <<>> /\ th[t].out[1].status = <<"init">>

\* Start has returned and getJournal, called on the task, has copied a
\* journal that holds the "init" entry and nothing else
C10_Witness ==
    \E w \in Workers, a \in Admins :
        /\ ret[w].op = "Start"
        /\ th[a].pc = "getJournal_Return"
        /\ th[a].id = ret[w].id
        /\ Len(th[a].out) = 1
        /\ th[a].out[1].status = <<"init">>

\* the labels of a journal, in order
Statuses(j) == [k \in 1..Len(j) |-> j[k].status]

\* some goroutine working on proc p leaves label l
SomeLeaves(p, l) == \E t \in Threads : th[t].p = p /\ Leaves(t, l)

\* C11: on a task that is not cancelled every Status call appends exactly its
\* label at the back of the journal and nothing else touches the journal
\* before Done; so the journal is "init" followed by the labels in call
\* order, the label of the last returned call last, and getJournal copies
\* exactly that, whatever reads go on in between.
C11_JournalInCallOrder ==
    /\ [][/\ \A t \in Threads : Leaves(t, "Status_Body") => AppendsEntry(t, th[t].arg)
          /\ \A p \in ProcRefs :
                (heap[p].journal # <<>> /\ heap'[p].journal # heap[p].journal)
                => SomeLeaves(p, "Status_Body") \/ SomeLeaves(p, "Done_Body")]_vars
    /\ [](\A t \in Threads :
            /\ th[t].pc = "getJournal_Return" => th[t].out = heap[th[t].p].journal
            /\ (ret[t].op = "Status" /\ procs[ret[t].id] # NULL)
               => LET j == heap[procs[ret[t].id]].journal IN
                  /\ Last(j).status = ret[t].arg
                  /\ Head(j).status = <<"init">>
                  /\ \A k \in 2..Len(j) : j[k].status \in Labels2)

\* two Status calls with different labels have returned and getJournal has
\* copied "init" and the two labels in the order of the calls
C11_Witness ==
    \E w \in Workers, a \in Admins :
        /\ ret[w] = Returned("Status", th[a].id, <<"reading">>, <<>>)
        /\ th[a].pc = "getJournal_Return"
        /\ Statuses(th[a].out) = <<<<"init">>, <<"writing">>, <<"reading">>>>

\* the entries done writes: "ended", "aborted" or the text of the interrupt
Terminal(status) ==
    status \in {<<"ended">>, <<"aborted">>} \/ Head(status) = "killed"

\* C12: a Status call that finds a cancellation request pending appends its
\* (time, label) entry and leaves with the interrupt in flight; at that moment
\* the journal already holds the cancel-request entry and no entry written by
\* Done, and no label ever follows an entry written by Done: the label of the
\* interrupted call sits after the request and before the terminal entry.
C12_InterruptedStatusRecorded ==
    /\ [][\A t \in Threads :
            (Leaves(t, "Status_Body") /\ heap[th[t].p].isPending)
            => LET j == heap[th[t].p].journal IN
               /\ AppendsEntry(t, th[t].arg)
               /\ inflight'[t].kind = "CancelErr"
               /\ \E k \in 1..Len(j) :
                     j[k].status = CancelRequestText(heap[th[t].p].message)
               /\ \A k \in 1..Len(j) : ~Terminal(j[k].status)]_vars
    /\ [](\A p \in ProcRefs :
            LET j == heap[p].journal IN
            \A k \in 1..Len(j) :
                Terminal(j[k].status)
                => \A l \in (k + 1)..Len(j) : j[l].status \notin Labels2)

\* the journal of a task that was interrupted inside Status("reading") and
\* then finished: init, the request, the label, the interrupt's text
C12_Witness ==
    \E t \in Workers, p \in ProcRefs :
        /\ ret[t].op = "Done"
        /\ Statuses(heap[p].journal) =
               << <<"init">>, <<"[cancel request: ", "bye", "]">>,
                  <<"reading">>, <<"killed", ": ", "bye">> >>

\* what a proc holds apart from its lock
Content(rec) == [rec EXCEPT !.mu = FreeMu]

\* goroutine t takes a step of CheckCancel
CheckCancelStep(t) ==
    \/ Enters(t, "CheckCancel_Body")
    \/ Leaves(t, "CheckCancel_Body")
    \/ Completes(t, "CheckCancel")

\* C13: no step of CheckCancel changes the registry or the journal, the
\* attributes or the cancellation state of any proc; it leaves a panic in
\* flight exactly when it finds the request flag of its task set, and then
\* the panic is the cancellation interrupt.
C13_CheckCancelLeavesNoTrace ==
    [][\A t \in Threads :
          CheckCancelStep(t)
          => /\ procs' = procs
             /\ \A p \in ProcRefs : Content(heap'[p]) = Content(heap[p])
             /\ inflight'[t] # NoPanic
                <=> (At(t, "CheckCancel_Body") /\ heap[th[t].p].isPending)
             /\ inflight'[t] # NoPanic => inflight'[t].kind = "CancelErr"]_vars

\* CheckCancel has raised on a task whose journal holds the "init" entry and
\* the cancel request and nothing else
C13_Witness ==
    \E t \in Workers, id \in Ids :
        /\ ret[t] = Returned("CheckCancel", id, <<>>, <<>>)
        /\ inflight[t].kind = "CancelErr"
        /\ procs[id] # NULL
        /\ Statuses(heap[procs[id]].journal) = << <<"init">>, <<"[cancel request]">> >>

\* goroutine t takes a step of Kill
KillStep(t) ==
    \/ Enters(t, "Kill_Lookup")
    \/ Leaves(t, "Kill_Lookup")
    \/ Leaves(t, "Kill_Body")

\* C14: a step of Kill leaves the registry, every panic in flight and every
\* other goroutine where they are; all it may do to a proc is set the request
\* flag with the message and append the one cancel-request entry. A
\* cancellation interrupt only comes into flight on the goroutine that leaves
\* a checkpoint on a proc whose flag is set, or that leaves Done with the
\* interrupt Done had taken from it.
C14_KillOnlyRequests ==
    [][\A t \in Threads :
          /\ KillStep(t)
             => /\ procs' = procs
                /\ inflight' = inflight
                /\ \A u \in Threads \ {t} : th'[u] = th[u]
                /\ \A p \in ProcRefs :
                      Content(heap'[p]) # Content(heap[p])
                      => /\ Leaves(t, "Kill_Body") /\ p = th[t].p
                         /\ heap'[p] = [heap[p] EXCEPT
                               !.isPending = TRUE, !.message = th[t].arg,
                               !.journal = Append(@, [ts |-> th[t].ts,
                                              status |-> CancelRequestText(th[t].arg)])]
          /\ (inflight'[t] # inflight[t] /\ inflight'[t].kind = "CancelErr")
             => \/ /\ LeavesCheckpoint(t)
                   /\ heap[th[t].p].isPending
                   /\ inflight'[t].by = th[t].p
                \/ /\ Leaves(t, "Done_Body")
                   /\ inflight'[t] = th[t].e]_vars

\* a task that was asked to stop and never called a checkpoint afterwards has
\* ended normally: its journal is init, the request, "ended"
C14_Witness ==
    \E t \in Workers, p \in ProcRefs :
        /\ ret[t].op = "Done"
        /\ inflight[t] = NoPanic
        /\ heap[p].isPending
        /\ Statuses(heap[p].journal) =
               << <<"init">>, <<"[cancel request: ", "bye", "]">>, <<"ended">> >>

\* C15: the registry maps an id to at most one proc, so that a snapshot never
\* lists an id twice; the entry of an id only changes in the step of Start
\* that stores the new proc under that id and in the step of Done that deletes
\* that id: between the two the proc stays in the registry.
C15_OnlyStartAndDone ==
    /\ [][\A id \in Ids :
            procs'[id] # procs[id]
            => \/ \E t \in Threads :
                     /\ Leaves(t, "Start_Put") /\ th[t].id = id
                     /\ procs'[id] = th[t].p /\ th[t].p # NULL
                     /\ \A i \in Ids \ {id} : procs'[i] = procs[i]
               \/ \E t \in Threads :
                     /\ Enters(t, "Done_Now") /\ th'[t].id = id
                     /\ procs'[id] = NULL
                     /\ \A i \in Ids \ {id} : procs'[i] = procs[i]]_vars
    /\ [](\A t \in Threads :
            InSnapshot(t)
            => \A k, l \in 1..Len(th[t].out) :
                  k # l => th[t].out[k].Id # th[t].out[l].Id)

\* an id that was started, finished and started again is in the registry
\* with its second proc, next to another id, and a snapshot lists both
C15_Witness ==
    \E t \in Admins, id \in Ids :
        /\ procs[id] = 3
        /\ InSnapshot(t)
        /\ Listed(t) = Ids
        /\ Len(th[t].out) = 2

\* C16: the first step of Done on an id that is in the registry deletes it,
\* whatever panic the goroutine is unwinding from, and the later steps of
\* Done, re-raising or not, do not put it back: once Done has returned the
\* id is in no snapshot, and a getJournal that looks the id up when it is not
\* in the registry returns ErrNoSuchProcess.
C16_DoneAlwaysRemoves ==
    /\ [][\A t \in Threads :
            /\ Enters(t, "Done_Now") => procs'[th'[t].id] = NULL
            /\ Leaves(t, "Done_Body") => procs'[th[t].id] = NULL
            /\ Enters(t, "getJournal_Empty") <=>
                  (Idle(t) /\ th'[t].pc \in {"getJournal_Empty", "getJournal_Read"}
                      /\ procs[th'[t].id] = NULL)
            /\ Leaves(t, "getJournal_Empty")
               => ret'[t] = Returned("getJournal", th[t].id, <<>>,
                                     <<"ErrNoSuchProcess">>)]_vars
    /\ [](\A t \in Workers :
            ret[t].op = "Done"
            => /\ procs[ret[t].id] = NULL
               /\ \A a \in Admins :
                     InSnapshot(a) => ret[t].id \notin Listed(a) \cup th[a].todo)

\* Done has re-raised the interrupt of a killed task, and the journal of the
\* task, asked for afterwards, is not found
C16_Witness ==
    \E t \in Workers, a \in Admins, p \in ProcRefs :
        /\ ret[t].op = "Done"
        /\ inflight[t] = CancelErr(<<"killed">>, p)
        /\ Last(heap[p].journal).status = <<"killed">>
        /\ ret[a] = Returned("getJournal", ret[t].id, <<>>, <<"ErrNoSuchProcess">>)

AttrMap(list) == {<<list[k].Name, list[k].Value>> : k \in 1..Len(list)}

\* C19: the proc that Start stores under an id carries exactly the attribute
\* map given to that call of Start, no step changes the attributes of a proc
\* afterwards, and every entry of a snapshot lists, each pair once, exactly
\* the attributes of the proc registered under the entry's id: with two tasks
\* live under two ids, neither entry shows a pair of the other task's map.
C19_SnapshotAttributes ==
    /\ [][/\ \A t \in Threads :
               Leaves(t, "Start_Put")
               => /\ procs'[th[t].id] = th[t].p
                  /\ heap[th[t].p].attrs = th[t].attrs
          /\ \A p \in ProcRefs :
               heap[p].journal # <<>> => heap'[p].attrs = heap[p].attrs]_vars
    /\ [](\A t \in Threads :
            InSnapshot(t)
            => \A k \in 1..Len(th[t].out) :
                  LET e == th[t].out[k] IN
                  /\ procs[e.Id] # NULL
                  /\ AttrMap(e.Attrs) = heap[procs[e.Id]].attrs
                  /\ Len(e.Attrs) = Cardinality(heap[procs[e.Id]].attrs))

\* two tasks with different attribute maps are live under two ids, and a
\* snapshot has listed both, each with its own map
C19_Witness ==
    \E t \in Admins :
        /\ InSnapshot(t)
        /\ Len(th[t].out) = 2
        /\ \E k, l \in 1..2 :
              /\ th[t].out[k].Id # th[t].out[l].Id
              /\ AttrMap(th[t].out[k].Attrs) = {<<"method", "GET">>}
              /\ AttrMap(th[t].out[l].Attrs) = {<<"method", "PUT">>, <<"host", "db1">>}

\* C20: from the moment getProcs holds the read lock of a proc until it has
\* appended the entry for it, no step of any goroutine changes the journal or
\* the cancellation state of that proc; the entry appended carries the time
\* of the first journal entry, the time and the label of the last one and the
\* request flag of the proc as they all are in one and the same state.
C20_EntryOfOneState ==
    [][\A t \in Threads :
          /\ th[t].pc \in {"getProcs_Entries", "getProcs_Read"}
             => Content(heap'[th[t].p]) = Content(heap[th[t].p])
          /\ Leaves(t, "getProcs_Read")
             => LET j == heap'[th[t].p].journal
                    e == Last(th'[t].out)
                IN  /\ th'[t].out = Append(th[t].out, e)
                    /\ e.Id = th[t].id
                    /\ procs'[e.Id] = th[t].p
                    /\ e.ProcTm = Head(j).ts
                    /\ e.StatusTm = Last(j).ts
                    /\ e.Status = Last(j).status
                    /\ e.Cancelling = heap'[th[t].p].isPending]_vars

\* getProcs holds the read lock of a task that is being cancelled and has
\* read its first entry and, as its last entry, the request, while a Status
\* call and a Kill on the same task are both waiting for the lock of the proc
C20_Witness ==
    \E t \in Admins, w \in Workers, k \in Admins2 \ Admins :
        /\ th[t].pc = "getProcs_Read"
        /\ th[w].pc = "Status_Body" /\ th[w].p = th[t].p
        /\ th[k].pc = "Kill_Body" /\ th[k].p = th[t].p
        /\ heap[th[t].p].isPending
        /\ th[t].firstJEntry = journalEntry(0, <<"init">>)
        /\ th[t].lastJEntry = journalEntry(1, <<"[cancel request: ", "bye", "]">>)

\* the ids that are in the registry
Registered == {id \in Ids : procs[id] # NULL}

\* C21: from its first step to its return getProcs keeps Start and Done from
\* changing the registry, so that the ids it has listed and the ids it has
\* still to visit are, together, the ids in the registry: each id is listed
\* at most once, only ids that are registered during the call are listed,
\* and every entry shows the first and the last journal entry of the proc
\* registered under its id. A Start or a Done that is under way meanwhile
\* is either seen whole or not at all.
C21_SnapshotOfRegistry ==
    /\ [][(\E t \in Threads : InSnapshot(t)) => procs' = procs]_vars
    /\ [](\A t \in Threads :
            InSnapshot(t)
            => /\ Listed(t) \cup th[t].todo = Registered
               /\ Listed(t) \cap th[t].todo = {}
               /\ Cardinality(Listed(t)) = Len(th[t].out)
               /\ \A k \in 1..Len(th[t].out) :
                     LET e == th[t].out[k]
                         j == heap[procs[e.Id]].journal
                     IN  /\ j # <<>>
                         /\ e.ProcTm = Head(j).ts
                         /\ e.Status = Last(j).status
                         /\ e.StatusTm = Last(j).ts)

\* a snapshot has listed the one task in the registry while a Start is
\* waiting to store its proc and the Done of a task that was removed before
\* the snapshot began has still to write its entry
C21_Witness ==
    \E t \in Admins, w, v \in Workers2 :
        /\ th[t].pc = "getProcs_Range"
        /\ th[t].todo = {}
        /\ Len(th[t].out) = 1
        /\ th[w].pc = "Start_Put"
        /\ th[v].pc = "Done_Body"
        /\ th[v].id \notin Listed(t)

\* C22: getJournal goes on to read a proc only if its lookup found the id in
\* the registry, and then returns nil with a journal that begins with
\* "init"; if the lookup did not find the id it returns ErrNoSuchProcess
\* with no entry at all. The two results cannot be taken for one another.
C22_HistoryNotFound ==
    [][\A t \in Threads :
          /\ Enters(t, "getJournal_Read")
             => procs[th'[t].id] # NULL /\ th'[t].p = procs[th'[t].id]
          /\ Enters(t, "getJournal_Empty") => procs[th'[t].id] = NULL
          /\ Leaves(t, "getJournal_Return")
             => /\ ret'[t] = Returned("getJournal", th[t].id, <<>>, <<"nil">>)
                /\ th[t].out # <<>>
                /\ Head(th[t].out).status = <<"init">>
          /\ Leaves(t, "getJournal_Empty")
             => /\ ret'[t] = Returned("getJournal", th[t].id, <<>>,
                                      <<"ErrNoSuchProcess">>)
                /\ th[t].out = <<>>]_vars

\* the goroutine that asked a task to stop has afterwards asked for its
\* journal, when the task had ended, and got ErrNoSuchProcess
C22_Witness ==
    \E t \in Workers, a \in Admins, p \in ProcRefs :
        /\ ret[t].op = "Done"
        /\ ret[a] = Returned("getJournal", ret[t].id, <<>>, <<"ErrNoSuchProcess">>)
        /\ Statuses(heap[p].journal) =
               << <<"init">>, <<"[cancel request]">>, <<"ended">> >>

\* goroutine t takes a step of getProcs or of getJournal / getHistory
ReadStep(t) ==
    \/ th[t].pc \in {"getProcs_Range", "getProcs_Entries", "getProcs_Read",
                     "getJournal_Empty", "getJournal_Read", "getJournal_Return"}
       /\ th'[t] # th[t]
    \/ Idle(t) /\ th'[t].pc \in {"getProcs_Range", "getJournal_Empty", "getJournal_Read"}

\* C23: no step of a snapshot or of a history request changes the registry
\* or the journal, the timestamps, the attributes or the cancellation state
\* of any proc.
C23_ReadsChangeNothing ==
    [][\A t \in Threads :
          ReadStep(t)
          => /\ procs' = procs
             /\ \A p \in ProcRefs : Content(heap'[p]) = Content(heap[p])]_vars

\* C24: the request flag of a proc changes in one way only, from unset to
\* set, and only in the step of a Kill on that proc, whose message it then
\* holds; a proc whose flag is set holds the cancel-request entry in its
\* journal; and a snapshot entry that says cancelling is the entry of a proc
\* whose flag is set, and stays set for every later snapshot.
C24_FlagOneWay ==
    /\ [][\A p \in ProcRefs :
            heap'[p].isPending # heap[p].isPending
            => /\ heap'[p].isPending
               /\ \E t \in Threads :
                     /\ Leaves(t, "Kill_Body") /\ th[t].p = p
                     /\ heap'[p].message = th[t].arg]_vars
    /\ [](/\ \A p \in ProcRefs :
               heap[p].isPending
               => \E k \in 1..Len(heap[p].journal) :
                     heap[p].journal[k].status = CancelRequestText(heap[p].message)
          /\ \A t \in Threads :
               InSnapshot(t)
               => \A k \in 1..Len(th[t].out) :
                     th[t].out[k].Cancelling
                     => heap[procs[th[t].out[k].Id]].isPending)

\* a snapshot taken after the task was interrupted in Status still lists it
\* as cancelling, with the label of that Status as its state
C24_Witness ==
    \E t \in Admins, w \in Workers :
        /\ th[t].pc = "getProcs_Range"
        /\ Len(th[t].out) = 1
        /\ th[t].out[1].Cancelling
        /\ th[t].out[1].Status = <<"reading">>
        /\ inflight[w].kind = "CancelErr"

\* C25: the proc that Start puts in the registry is a new one: its journal is
\* the one entry "init", no request is pending on it, no other id and no
\* other goroutine holds it, whatever happened to the task that used the id
\* before. A Kill writes the proc it looked up and no other, so that a Kill
\* that looked up the previous task leaves the new one alone, and the
\* checkpoint of the new task raises only for a request recorded in the new
\* task's own journal.
C25_RestartIsFresh ==
    /\ [][/\ \A t \in Threads :
               Leaves(t, "Start_Put")
               => /\ procs'[th[t].id] = th[t].p
                  /\ Statuses(heap'[th[t].p].journal) = << <<"init">> >>
                  /\ ~heap'[th[t].p].isPending
                  /\ heap'[th[t].p].message = <<>>
                  /\ \A id \in Ids : procs[id] # th[t].p
                  /\ \A u \in Threads \ {t} : th[u].p # th[t].p
          /\ \A t \in Threads :
               Leaves(t, "Kill_Body")
               => \A q \in ProcRefs \ {th[t].p} : heap'[q] = heap[q]
          /\ \A t \in Threads :
               LeavesCheckpoint(t) /\ inflight'[t] # NoPanic
               => /\ inflight'[t].by = th[t].p
                  /\ CancelRequests(heap[th[t].p].journal) # {}]_vars
    /\ [](\A t \in Workers :
             At(t, "CheckCancel_Body") => th[t].p = procs[th[t].id])

\* the second task under an id passes a checkpoint although the first task
\* under that id was killed, the request written after that task had ended
C25_Witness ==
    /\ procs["t1"] = 2
    /\ ~heap[2].isPending
    /\ Statuses(heap[1].journal) = << <<"init">>, <<"ended">>, <<"[cancel request]">> >>
    /\ ret["a1"].op = "Kill" /\ ret["a1"].id = "t1"
    /\ ret["w1"].op = "CheckCancel" /\ ret["w1"].id = "t1"
    /\ inflight["w1"] = NoPanic

\* goroutine t takes the step in which an operation looks its id up
LooksUp(t) ==
    \/ Enters(t, "CheckCancel_Body")
    \/ Enters(t, "getJournal_Read")
    \/ Enters(t, "Done_Now")
    \/ Leaves(t, "Kill_Lookup") /\ th'[t].pc = "Kill_Body"

\* C26: Start on an id that has a proc in the registry puts its new proc in
\* the place of the old one: the id then maps to the new proc, whose journal
\* is the one entry "init" and which has no request pending, no id maps to
\* the old proc, and the other ids keep theirs. A proc enters the registry
\* only in that step of Start and is newer than every proc registered so
\* far, so that a replaced proc never comes back; every operation that
\* looks its id up after the replacement finds the proc the registry holds
\* then, and getJournal returns the journal of the proc it found. (An
\* operation that looked the id up before the replacement still finishes on
\* the old proc.)
C26_StartReplaces ==
    /\ [][/\ \A t \in Threads :
               Leaves(t, "Start_Put") /\ procs[th[t].id] # NULL
               => /\ procs'[th[t].id] = th[t].p
                  /\ th[t].p # procs[th[t].id]
                  /\ \A id \in Ids : procs'[id] # procs[th[t].id]
                  /\ \A id \in Ids \ {th[t].id} : procs'[id] = procs[id]
                  /\ Statuses(heap'[th[t].p].journal) = << <<"init">> >>
                  /\ ~heap'[th[t].p].isPending
          /\ \A id \in Ids :
               procs'[id] # procs[id] /\ procs'[id] # NULL
               => \E t \in Threads :
                     /\ Leaves(t, "Start_Put")
                     /\ th[t].id = id /\ th[t].p = procs'[id]
                     /\ \A i \in Ids : procs[i] < th[t].p
          /\ \A t \in Threads :
               LooksUp(t) => th'[t].p # NULL /\ th'[t].p = procs[th'[t].id]]_vars
    /\ [](\A t \in Threads :
             At(t, "getJournal_Return") => th[t].out = heap[th[t].p].journal)

\* a task was started under the id of a task that was asked to stop and is
\* not over: the journal read under the id afterwards is the new task's
C26_Witness ==
    /\ procs["t1"] = 2 /\ procs["t2"] = NULL
    /\ Idle("w1")
    /\ Statuses(heap[1].journal) = << <<"init">>, <<"[cancel request]">> >>
    /\ heap[1].isPending /\ ~heap[2].isPending
    /\ At("a1", "getJournal_Return")
    /\ th["a1"].id = "t1" /\ th["a1"].p = 2
    /\ Statuses(th["a1"].out) = << <<"init">> >>

\* journal j is the front of journal k
IsPrefix(j, k) == Len(j) <= Len(k) /\ SubSeq(k, 1, Len(j)) = j

\* C27: every step leaves every journal as it is or with one entry more at
\* the back: no entry is removed, rewritten or moved, by Status, Kill,
\* CheckCancel, Done or a read. getJournal returns the journal as it stands
\* while it holds the read lock of the proc, so that what an earlier call
\* returned is the front of what a later call on the same task returns.
C27_JournalAppendOnly ==
    /\ [][\A p \in ProcRefs :
             /\ IsPrefix(heap[p].journal, heap'[p].journal)
             /\ Len(heap'[p].journal) <= Len(heap[p].journal) + 1]_vars
    /\ [](\A t \in Threads :
             At(t, "getJournal_Return")
             => /\ IsPrefix(th[t].out, heap[th[t].p].journal)
                /\ Len(th[t].out) = Len(heap[th[t].p].journal))

\* the journal of a live task is read after a Status and a Kill on it
C27_Witness ==
    \E t \in Admins :
        /\ At(t, "getJournal_Return")
        /\ procs[th[t].id] = th[t].p
        /\ Statuses(th[t].out) =
               << <<"init">>, <<"reading">>, <<"[cancel request]">> >>

\* the timestamps of journal j do not decrease from front to back
TimeOrdered(j) == \A k \in 1..(Len(j) - 1) : j[k].ts <= j[k + 1].ts

\* journal j without the entries written by Kill
OwnEntries(j) == SelectSeq(j, LAMBDA e : e.status \notin
                                 {CancelRequestText(m) : m \in Messages})

\* C28: in every reachable state the timestamps of every journal are
\* non-decreasing in journal order.
C28_JournalTimeOrdered ==
    \A p \in ProcRefs : TimeOrdered(heap[p].journal)

\* a Status that read the clock before a Kill did has written its entry
\* after the entry of the Kill
C28_Witness ==
    \E p \in ProcRefs :
        /\ Len(heap[p].journal) = 3
        /\ heap[p].journal[2] = journalEntry(1, <<"[cancel request]">>)
        /\ heap[p].journal[3] = journalEntry(0, <<"reading">>)

\* the entries that the goroutine of the task wrote itself (Start, Status,
\* Done) are in time order
OwnEntriesTimeOrdered ==
    \A p \in ProcRefs : TimeOrdered(OwnEntries(heap[p].journal))

\* goroutine t holds the lock of the registry, to write or to read
HoldsRegistry(t) == plmu.w = t \/ t \in plmu.r

\* goroutine t holds the lock of proc p, to write or to read
HoldsRecord(t, p) == heap[p].mu.w = t \/ t \in heap[p].mu.r

\* C29 as stated: no goroutine holds the lock of the registry while it holds
\* the lock of a proc.
C29_RegistryLockNotNested ==
    \A t \in Threads : HoldsRegistry(t) => \A p \in ProcRefs : ~HoldsRecord(t, p)

\* C29: a goroutine holds the lock of the registry together with the lock of
\* a proc only inside the range of getProcs, both for reading and one proc
\* at a time; Start, Status, CheckCancel, Kill, Done and getJournal have let
\* the registry go before they take the lock of a proc. No goroutine that
\* holds the lock of a proc takes the lock of the registry, and none takes
\* the lock of a second proc.
C29_OnlySnapshotNests ==
    /\ [](\A t \in Threads, p \in ProcRefs :
             HoldsRecord(t, p)
             => /\ \A q \in ProcRefs \ {p} : ~HoldsRecord(t, q)
                /\ th[t].p = p
                /\ HoldsRegistry(t)
                   => /\ th[t].pc \in {"getProcs_Entries", "getProcs_Read"}
                      /\ plmu.w # t /\ heap[p].mu.w # t
                /\ ~HoldsRegistry(t) => th[t].pc = "getJournal_Return")
    /\ [][\A t \in Threads :
             /\ LeavesCheckpoint(t) \/ Leaves(t, "Kill_Body") \/ Leaves(t, "Done_Body")
                \/ Leaves(t, "getJournal_Read")
                => ~HoldsRegistry(t) /\ plmu' = plmu
             /\ (\E p \in ProcRefs : HoldsRecord(t, p))
                => plmu' = plmu \/ (plmu'.w = plmu.w /\ plmu'.r = plmu.r \ {t})]_vars

\* getProcs holds the registry and the proc it reads while the goroutine of
\* the task waits for the proc to write its Status entry
C29_Witness ==
    \E t \in Admins, w \in Workers :
        /\ At(t, "getProcs_Entries")
        /\ HoldsRegistry(t) /\ HoldsRecord(t, th[t].p)
        /\ At(w, "Status_Body") /\ th[w].p = th[t].p

\* C30: with a fair scheduler and fair locks every operation that a
\* goroutine has started comes to its end, returning or raising, whatever
\* the other goroutines do; and the lock of the registry is free again and
\* again, so that no operation waits for ever to start.
C30_EveryOperationEnds ==
    /\ \A t \in FairThreads : (th[t].pc # "idle") ~> (th[t].pc = "idle")
    /\ []<>CanLock(plmu)

\* a snapshot holds the registry and has still to read a proc on which a
\* Status of the owner is blocked behind a reader of the journal
C30_Witness ==
    /\ At("a1", "getProcs_Range") /\ HoldsRegistry("a1")
    /\ At("a2", "getJournal_Return") /\ HoldsRecord("a2", th["a2"].p)
    /\ At("w1", "Status_Body") /\ th["w1"].waits /\ th["w1"].p = th["a2"].p
    /\ th["w1"].p \in {procs[id] : id \in th["a1"].todo}

\* goroutine t holds no lock, of the registry or of a proc, after the step
FreeAfter(t) ==
    /\ plmu'.w # t /\ t \notin plmu'.r
    /\ \A p \in ProcRefs : heap'[p].mu.w # t /\ t \notin heap'[p].mu.r

\* C31: the step in which Status or CheckCancel raises the interrupt, and the
\* step in which Done leaves with a panic, leave the goroutine with no lock
\* held; a goroutine that is in no operation holds no lock, whether a panic
\* is in flight on it or not, so that its Done, a snapshot, a journal read
\* and a Kill can take the lock of the proc afterwards.
C31_RaisingReleasesLock ==
    /\ [][\A t \in Threads :
             /\ LeavesCheckpoint(t) /\ inflight'[t] # NoPanic => FreeAfter(t)
             /\ Leaves(t, "Done_Body") /\ inflight'[t] # NoPanic => FreeAfter(t)]_vars
    /\ [](\A t \in Threads :
             Idle(t) => /\ ~HoldsRegistry(t)
                        /\ \A p \in ProcRefs : ~HoldsRecord(t, p))

\* the interrupt raised by Status is in flight on the goroutine of the task
\* while the journal of the task is being read under the lock of the proc
C31_Witness ==
    \E t \in Workers, a \in Admins :
        /\ Idle(t) /\ inflight[t].kind = "CancelErr"
        /\ ret[t].op = "Status"
        /\ At(a, "getJournal_Return")
        /\ th[a].p = inflight[t].by
        /\ HoldsRecord(a, th[a].p)
        /\ Last(th[a].out).status = <<"reading">>

\* C32: in every reachable state a proc has its request flag set exactly when
\* its journal holds a cancel-request entry, and no journal holds two; this
\* holds for the procs in the registry and for those that have left it.
C32_FlagIffRequestEntry ==
    \A p \in ProcRefs :
        /\ heap[p].isPending <=> CancelRequests(heap[p].journal) # {}
        /\ Cardinality(CancelRequests(heap[p].journal)) <= 1

\* a task in the registry was asked to stop twice, with two messages: its
\* journal holds the entry of the first request only
C32_Witness ==
    \E id \in Ids, a \in Admins :
        /\ procs[id] # NULL
        /\ heap[procs[id]].isPending
        /\ heap[procs[id]].message = <<"bye">>
        /\ Statuses(heap[procs[id]].journal) =
               << <<"init">>, <<"[cancel request: ", "bye", "]">> >>
        /\ ret[a].op = "Kill" /\ ret[a].id = id /\ ret[a].arg = <<>>
        /\ ~heap[procs[id]].forbid

\* C33: in every reachable state the journal of every proc in the registry
\* is not empty and begins with "init", and so is the journal of the proc a
\* snapshot is reading: the Front() and Back() that getProcs reads exist, and
\* the first entry it has read is "init".
C33_JournalNeverEmpty ==
    /\ \A id \in Ids :
          procs[id] # NULL
          => /\ heap[procs[id]].journal # <<>>
             /\ Head(heap[procs[id]].journal).status = <<"init">>
    /\ \A t \in Threads :
          /\ At(t, "getProcs_Entries") => heap[th[t].p].journal # <<>>
          /\ At(t, "getProcs_Read") => th[t].firstJEntry.status = <<"init">>

\* a snapshot has read the first and the last entry of a journal that holds
\* the one entry "init", while the Status of the owner waits for the proc
C33_Witness ==
    \E t \in Admins, w \in Workers :
        /\ At(t, "getProcs_Read")
        /\ Len(heap[th[t].p].journal) = 1
        /\ th[t].firstJEntry = th[t].lastJEntry
        /\ th[t].firstJEntry.status = <<"init">>
        /\ At(w, "Status_Body") /\ th[w].p = th[t].p

\* the places of the entries of journal j that Done wrote
TerminalEntries(j) == {k \in 1..Len(j) : Terminal(j[k].status)}

\* C34: a journal holds at most one terminal entry, and the terminal entry
\* is the last entry of the journal in every reachable state: nothing is
\* appended after it.
C34_TerminalEntryLast ==
    \A p \in ProcRefs :
        /\ Cardinality(TerminalEntries(heap[p].journal)) <= 1
        /\ \A k \in TerminalEntries(heap[p].journal) : k = Len(heap[p].journal)

\* a Kill that had looked the proc up before Done removed it has written its
\* entry after the terminal entry
C34_Witness ==
    \E p \in ProcRefs, a \in Admins :
        /\ Statuses(heap[p].journal) =
              << <<"init">>, <<"reading">>, <<"ended">>, <<"[cancel request]">> >>
        /\ heap[p].isPending
        /\ ret[a].op = "Kill"
        /\ \A id \in Ids : procs[id] # p

\* a journal holds at most one terminal entry, written in the last step of
\* the Done that took the proc out of the registry
OneTerminalEntry ==
    /\ [](\A p \in ProcRefs : Cardinality(TerminalEntries(heap[p].journal)) <= 1)
    /\ [][\A p \in ProcRefs :
             TerminalEntries(heap'[p].journal) # TerminalEntries(heap[p].journal)
             => \E t \in Threads : Leaves(t, "Done_Body") /\ th[t].p = p]_vars

\* C35: a Kill holds the proc that had the id when the Kill looked it up, a
\* proc that its Start had already stored in the registry, and keeps that
\* proc whatever Done and Start do to the id meanwhile; the request flag of a
\* proc is set only in the last step of a Kill that holds that proc. So a
\* Kill sets the flag of the task started under the id after a Done only if
\* it looked the id up after that Start.
C35_KillKeepsItsRecord ==
    [][/\ \A t \in Threads :
           /\ Leaves(t, "Kill_Lookup") /\ th'[t].pc = "Kill_Body"
              => /\ th'[t].p = procs[th[t].id]
                 /\ \A w \in Threads : At(w, "Start_Put") => th[w].p # th'[t].p
           /\ At(t, "Kill_Body") /\ th'[t].pc = "Kill_Body"
              => th'[t].p = th[t].p /\ th'[t].id = th[t].id
       /\ \A q \in ProcRefs :
           heap'[q].isPending /\ ~heap[q].isPending
           => \E t \in Threads : Leaves(t, "Kill_Body") /\ th[t].p = q]_vars

\* a task was started under the id after the Done of the first task; the
\* Kill that had looked up the first task has then written the first proc
C35_Witness ==
    \E a \in Admins :
        /\ procs["t1"] = 2
        /\ Statuses(heap[2].journal) = << <<"init">> >>
        /\ ~heap[2].isPending
        /\ Statuses(heap[1].journal) =
              << <<"init">>, <<"ended">>, <<"[cancel request: ", "bye", "]">> >>
        /\ heap[1].message = <<"bye">>
        /\ ret[a].op = "Kill" /\ ret[a].id = "t1" /\ ret[a].arg = <<"bye">>

\* the labels at which an operation holds the proc it has looked up
BodyLabels == {"Status_Body", "CheckCancel_Body", "Kill_Body", "Done_Now", "Done_Body"}

\* C36: the proc that has id B in the registry is changed (journal,
\* attributes, request flag, message) only by the step of an operation that
\* was called with B, and the registry entry of B only by a Start or a Done
\* called with B; an operation called with A never holds the proc of another
\* id, and an interrupt raised at a checkpoint called with B comes from the
\* request flag of the proc that the checkpoint found under B.
C36_TasksIsolated ==
    /\ [][\A b \in Ids :
             /\ procs[b] # NULL
                /\ Content(heap'[procs[b]]) # Content(heap[procs[b]])
                => \E t \in Threads :
                      /\ th[t].id = b /\ th[t].p = procs[b]
                      /\ th[t].pc \in BodyLabels /\ Leaves(t, th[t].pc)
             /\ procs'[b] # procs[b]
                => \E t \in Threads :
                      \/ Leaves(t, "Start_Put") /\ th[t].id = b
                      \/ Enters(t, "Done_Now") /\ th'[t].id = b]_vars
    /\ [][\A t \in Threads :
             LeavesCheckpoint(t) /\ inflight'[t] # NoPanic
             => /\ inflight'[t].by = th[t].p
                /\ heap[th[t].p].isPending
                /\ \A b \in Ids \ {th[t].id} : procs[b] # th[t].p]_vars
    /\ [](\A t \in Threads, b \in Ids :
             th[t].pc \in BodyLabels /\ b # th[t].id => procs[b] # th[t].p)

\* two tasks are in the registry; the first was asked to stop and its Status
\* has raised the interrupt, the second has reported progress since and
\* goes on
C36_Witness ==
    /\ procs["t1"] # NULL /\ procs["t2"] # NULL
    /\ heap[procs["t1"]].isPending /\ ~heap[procs["t2"]].isPending
    /\ inflight["w1"].kind = "CancelErr" /\ ret["w1"].op = "Status"
    /\ inflight["w2"] = NoPanic
    /\ ret["w2"].op = "Status" /\ ret["w2"].id = "t2"
    /\ Statuses(heap[procs["t2"]].journal) = << <<"init">>, <<"reading">> >>
    /\ ret["a1"].op = "Kill" /\ ret["a1"].id = "t1"

\* goroutine t calls Done with an id that is not in the registry
DoneOfMissing(t) ==
    /\ Idle(t) /\ th'[t].pc = "idle"
    /\ ret'[t].op = "Done"
    /\ ret'[t] # ret[t] \/ inflight'[t] # inflight[t]

\* C37: Done on an id that is not in the registry is one step that leaves
\* the registry, every proc and the options as they are; it returns with no
\* panic if none was in flight, re-raises a panic that is not the
\* cancellation interrupt, and re-raises the cancellation interrupt unless
\* StopCancelPanic is set, in which case it returns normally. A Done that
\* goes on to write a terminal entry found its id in the registry.
C37_DoneOfMissingId ==
    [][\A t \in Threads :
          /\ DoneOfMissing(t)
             => /\ procs[ret'[t].id] = NULL
                /\ procs' = procs /\ heap' = heap /\ opts' = opts
                /\ inflight[t] = NoPanic => inflight'[t] = NoPanic
                /\ inflight[t].kind = "fault" => inflight'[t] = inflight[t]
                /\ inflight[t].kind = "CancelErr"
                   => inflight'[t] = IF opts.StopCancelPanic THEN NoPanic
                                     ELSE inflight[t]
          /\ Enters(t, "Done_Now") => procs[th'[t].id] # NULL]_vars

\* the goroutine of a task that was interrupted has called Done with an id
\* that no task ever had: the interrupt is in flight again and the task is
\* still in the registry, its journal without a terminal entry
C37_Witness ==
    \E t \in Workers :
        /\ ret[t] = Returned("Done", "t2", <<>>, <<>>)
        /\ nextp = 2 /\ procs["t1"] = 1
        /\ inflight[t].kind = "CancelErr" /\ inflight[t].by = 1
        /\ ~opts.StopCancelPanic
        /\ TerminalEntries(heap[1].journal) = {}

\* C38: Done takes the panic in flight when it is called and writes the
\* terminal entry for that panic alone: "ended" for none, the text of the
\* interrupt for a cancellation interrupt, "aborted" for any other, whether a
\* request is pending on the proc or not. With a request pending and no
\* panic in flight Done writes "ended", leaves the flag set and returns
\* with no panic.
C38_OutcomeFromPanic ==
    [][\A t \in Threads :
          /\ Enters(t, "Done_Now") => th'[t].e = inflight[t]
          /\ Leaves(t, "Done_Body")
             => /\ th[t].e = NoPanic => AppendsEntry(t, <<"ended">>)
                /\ th[t].e.kind = "CancelErr" => AppendsEntry(t, th[t].e.message)
                /\ th[t].e.kind = "fault" => AppendsEntry(t, <<"aborted">>)
                /\ heap[th[t].p].isPending /\ th[t].e = NoPanic
                   => /\ inflight'[t] = NoPanic
                      /\ heap'[th[t].p].isPending]_vars

\* a task that was asked to stop has called Done without a panic in flight:
\* its journal ends with "ended" and Done has returned
C38_Witness ==
    \E t \in Workers, p \in ProcRefs :
        /\ ret[t].op = "Done" /\ inflight[t] = NoPanic /\ Idle(t)
        /\ heap[p].isPending /\ heap[p].message = <<"bye">>
        /\ Statuses(heap[p].journal) =
              << <<"init">>, <<"[cancel request: ", "bye", "]">>, <<"ended">> >>
        /\ ~opts.StopCancelPanic

\* goroutine t holds the interrupt that its last checkpoint raised
Interrupted(t) ==
    /\ Idle(t)
    /\ ret[t].op \in {"Status", "CheckCancel"}
    /\ inflight[t].kind = "CancelErr"

\* C39: the checkpoint that raises the interrupt leaves the registry as it
\* is and the flag set; while the goroutine holds that interrupt the id
\* still maps to the proc that raised it, with the flag set; an id leaves the
\* registry only in the first step of a Done on it; and a snapshot that reads
\* a proc with the flag set lists it as cancelling.
C39_CheckpointFinalizesNothing ==
    /\ [][\A t \in Threads :
             /\ LeavesCheckpoint(t) /\ inflight'[t] # NoPanic
                => /\ procs' = procs
                   /\ procs[th[t].id] = th[t].p
                   /\ heap'[th[t].p].isPending
                   /\ \A k \in 1..Len(heap'[th[t].p].journal) :
                         ~Terminal(heap'[th[t].p].journal[k].status)
             /\ Leaves(t, "getProcs_Read") /\ heap[th[t].p].isPending
                => /\ Last(th'[t].out).Id = th[t].id
                   /\ Last(th'[t].out).Cancelling
             /\ \A id \in Ids :
                   procs[id] # NULL /\ procs'[id] = NULL
                   => \E u \in Threads : Enters(u, "Done_Now") /\ th'[u].id = id]_vars
    /\ [](\A t \in Threads :
             Interrupted(t)
             => /\ procs[ret[t].id] = inflight[t].by
                /\ heap[inflight[t].by].isPending)

\* a goroutine holds the interrupt its checkpoint raised, Done not yet
\* called, and a snapshot in progress has listed its task as cancelling
C39_Witness ==
    \E t \in Workers, a \in Admins :
        /\ Interrupted(t)
        /\ InSnapshot(a)
        /\ \E k \in 1..Len(th[a].out) :
              /\ th[a].out[k].Id = ret[t].id
              /\ th[a].out[k].Cancelling
              /\ th[a].out[k].Status = <<"[cancel request]">>

====
